---- MODULE Spec2Model ----
(***************************************************************************)
(* A model of the fashion dashboard front end: the distribution            *)
(* aggregation of FashionDashboard.tsx / Overview.tsx, the pie-slice       *)
(* layout of PieChart.tsx and the cascading filters of the Data page, the  *)
(* hover tooltip of the chart, the FashionStatistics page, the Chatbot and *)
(* the save_looks and getlooks lambdas.                                    *)
(*                                                                         *)
(* JavaScript strings are sequences of one-character strings, so that      *)
(* charAt, slice, toUpperCase, toLowerCase, includes, replace and sort are *)
(* computed character by character.  A field that is absent from a record *)
(* (undefined) is the value NULL.  Numbers that the code divides are exact *)
(* rationals <<numerator, denominator>>.                                   *)
(***************************************************************************)
EXTENDS Integers, Sequences, FiniteSets, TLC

VARIABLES
  loading,           \* FashionDashboard: useState loading
  error,             \* FashionDashboard: useState error
  rawData,           \* FashionDashboard: useState rawData
  data,              \* FashionDashboard: useState data (records by image)
  showAllColors,     \* FashionDashboard: useState showAllColors
  showAllItems,      \* FashionDashboard: useState showAllItems
  showAllMaterials,  \* FashionDashboard: useState showAllMaterials
  selected,          \* FashionDashboard: the dataset prop of the last render
  pending,           \* FashionDashboard: the fetchData calls in flight, each
                     \* with the dataset its closure captured
  dataLoading,       \* Data page: useState loading
  allData,           \* Data page: useState allData
  filters,           \* Data page: useState filters
  filteredData,      \* Data page: useState filteredData
  datasets,          \* Data page: useState datasets
  currentDataset,    \* Data page: useState currentDataset
  args,              \* the arguments of a call of a pure helper
  returned,          \* what the call returned or threw
  chartData,         \* hover PieChart: the data prop of the last render
  hoveredSlice,      \* hover PieChart: useState hoveredSlice, <<>> for null
  statColors,        \* FashionStatistics: useState colors
  statItems,         \* FashionStatistics: useState items
  statMaterials,     \* FashionStatistics: useState materials
  selectedBrand,     \* FashionStatistics: useState selectedBrand
  selectedSeason,    \* FashionStatistics: useState selectedSeason
  table,             \* lambdas: the items of the MoonboardLooks table
  clock,             \* lambdas: the time new Date() reads
  lambdaResponse,    \* lambdas: the response of the last invocation
  messages,          \* Chatbot: useState messages
  input,             \* Chatbot: useState input
  chatLoading,       \* Chatbot: useState loading
  chatPending        \* Chatbot: the handleSend calls awaiting their fetch

vars == <<loading, error, rawData, data, showAllColors, showAllItems,
          showAllMaterials, selected, pending, dataLoading, allData, filters,
          filteredData, datasets, currentDataset, args, returned, chartData,
          hoveredSlice, statColors, statItems, statMaterials, selectedBrand,
          selectedSeason, table, clock, lambdaResponse, messages, input,
          chatLoading, chatPending>>

dashVars == <<loading, error, rawData, data, showAllColors, showAllItems,
              showAllMaterials, selected, pending>>
dataVars == <<dataLoading, allData, filters, filteredData, datasets,
              currentDataset>>
callVars == <<args, returned>>
hoverVars == <<chartData, hoveredSlice>>
statVars == <<statColors, statItems, statMaterials, selectedBrand,
              selectedSeason>>
looksVars == <<table, clock, lambdaResponse>>
chatVars == <<messages, input, chatLoading, chatPending>>
extVars == <<hoverVars, statVars, looksVars, chatVars>>

(***************************************************************************)
(* Bounds of the model.                                                    *)
(***************************************************************************)
\* records of the dashboard response that are drawn freely from RecordPool
MaxFree == 3
\* length of the longest dashboard response
MaxRecords == 12
\* length of the longest Data page response
MaxData == 2

(***************************************************************************)
(* Strings.                                                                *)
(***************************************************************************)
\* The characters of the model, in UTF-16 code unit order.
Chars ==
  <<" ", "#", "-", "0", "1", "2", "3", "4", "5", "6", "7", "8", "9",
    "A", "B", "C", "D", "E", "F", "G", "H", "I", "J", "K", "L", "M",
    "N", "O", "P", "Q", "R", "S", "T", "U", "V", "W", "X", "Y", "Z",
    "_",
    "a", "b", "c", "d", "e", "f", "g", "h", "i", "j", "k", "l", "m",
    "n", "o", "p", "q", "r", "s", "t", "u", "v", "w", "x", "y", "z">>

CharSet == {Chars[i] : i \in DOMAIN Chars}

\* The position of a character in code unit order.
CodeOf == [c \in CharSet |-> CHOOSE i \in DOMAIN Chars : Chars[i] = c]

Digits == {"0", "1", "2", "3", "4", "5", "6", "7", "8", "9"}
DigitVal(c) == CodeOf[c] - CodeOf["0"]

IsUpperChar(c) == CodeOf[c] >= CodeOf["A"] /\ CodeOf[c] <= CodeOf["Z"]
IsLowerChar(c) == CodeOf[c] >= CodeOf["a"] /\ CodeOf[c] <= CodeOf["z"]

ToUpperChar(c) ==
  IF IsLowerChar(c) THEN Chars[CodeOf[c] - CodeOf["a"] + CodeOf["A"]] ELSE c

ToLowerChar(c) ==
  IF IsUpperChar(c) THEN Chars[CodeOf[c] - CodeOf["A"] + CodeOf["a"]] ELSE c

\* undefined: a field the record does not carry
NULL == <<"undefined">>

\* x || d for strings: undefined and '' are falsy
OrElse(x, d) == IF x = NULL \/ x = <<>> THEN d ELSE x

\* String.prototype.trim
RECURSIVE TrimStart(_)
TrimStart(s) ==
  IF s # <<>> /\ s[1] = " " THEN TrimStart(Tail(s)) ELSE s

RECURSIVE TrimEnd(_)
TrimEnd(s) ==
  IF s # <<>> /\ s[Len(s)] = " " THEN TrimEnd(SubSeq(s, 1, Len(s) - 1)) ELSE s

Trim(s) == TrimEnd(TrimStart(s))

\* String.prototype.toLowerCase
toLowerCase(s) == [i \in 1..Len(s) |-> ToLowerChar(s[i])]

\* String.prototype.includes
includes(s, t) ==
  \E i \in 0..(Len(s) - Len(t)) : SubSeq(s, i + 1, i + Len(t)) = t

\* s.charAt(0).toUpperCase() + s.slice(1)
displayForm(s) ==
  IF s = <<>> THEN <<>> ELSE <<ToUpperChar(s[1])>> \o Tail(s)

\* lexicographic order by code unit: the order of Array.prototype.sort()
RECURSIVE StrLess(_, _)
StrLess(a, b) ==
  IF b = <<>> THEN FALSE
  ELSE IF a = <<>> THEN TRUE
  ELSE IF a[1] = b[1] THEN StrLess(Tail(a), Tail(b))
  ELSE CodeOf[a[1]] < CodeOf[b[1]]

\* the value of a string of digits
RECURSIVE NumVal(_)
NumVal(s) ==
  IF s = <<>> THEN 0 ELSE 10 * NumVal(SubSeq(s, 1, Len(s) - 1)) + DigitVal(s[Len(s)])

\* A property key that is an array index: a canonical numeric string below
\* 2^32 - 1 (every canonical string of at most nine digits is; the model has
\* no longer digit strings).  Such keys are enumerated first, in ascending
\* numeric order.
IsArrayIndex(s) ==
  /\ Len(s) >= 1
  /\ Len(s) <= 9
  /\ \A i \in 1..Len(s) : s[i] \in Digits
  /\ (Len(s) > 1 => s[1] # "0")

(***************************************************************************)
(* Exact rationals <<n, d>> with d > 0.                                    *)
(***************************************************************************)
Abs(n) == IF n < 0 THEN 0 - n ELSE n

RECURSIVE Gcd(_, _)
Gcd(a, b) == IF b = 0 THEN a ELSE Gcd(b, a % b)

\* n / d in lowest terms
Rat(n, d) ==
  LET g == Gcd(Abs(n), d) IN <<n \div g, d \div g>>

RInt(n) == <<n, 1>>
RAdd(a, b) == Rat(a[1] * b[2] + b[1] * a[2], a[2] * b[2])
RSub(a, b) == Rat(a[1] * b[2] - b[1] * a[2], a[2] * b[2])
RMul(a, b) == Rat(a[1] * b[1], a[2] * b[2])
REq(a, b) == a[1] * b[2] = b[1] * a[2]
RLe(a, b) == a[1] * b[2] <= b[1] * a[2]
\* a modulo m for an integer m > 0, in [0, m)
RMod(a, m) == Rat(a[1] % (m * a[2]), a[2])

(***************************************************************************)
(* DistributionData: a JavaScript object used as a counter map.  The model *)
(* keeps its own properties in creation order, each <<key, count>>.        *)
(***************************************************************************)
HasKey(obj, k) == \E i \in 1..Len(obj) : obj[i][1] = k

\* Increment with the count restarted at 1 on every occurrence
Increment_Restart(obj, k) ==
  IF \E i \in 1..Len(obj) : obj[i][1] = k
  THEN [i \in 1..Len(obj) |-> IF obj[i][1] = k THEN <<k, 1>> ELSE obj[i]]
  ELSE Append(obj, <<k, 1>>)

\* obj[k] = (obj[k] || 0) + 1
Increment(obj, k) ==
  IF HasKey(obj, k)
  THEN [i \in 1..Len(obj) |->
          IF obj[i][1] = k THEN <<k, obj[i][2] + 1>> ELSE obj[i]]
  ELSE Append(obj, <<k, 1>>)

\* stable insertion of e into a list that ascends by numeric key
InsertByIndex(e, s) ==
  LET k == Cardinality({i \in 1..Len(s) : NumVal(s[i][1]) <= NumVal(e[1])})
  IN SubSeq(s, 1, k) \o <<e>> \o SubSeq(s, k + 1, Len(s))

RECURSIVE SortByIndex(_)
SortByIndex(s) ==
  IF s = <<>> THEN <<>>
  ELSE InsertByIndex(s[Len(s)], SortByIndex(SubSeq(s, 1, Len(s) - 1)))

\* Object.entries: array-index keys in ascending numeric order, then the
\* other string keys in creation order
ObjectEntries(obj) ==
  SortByIndex(SelectSeq(obj, LAMBDA e : IsArrayIndex(e[1])))
    \o SelectSeq(obj, LAMBDA e : ~IsArrayIndex(e[1]))

\* stable insertion of e into a list that descends by count
InsertDesc(e, s) ==
  LET k == Cardinality({i \in 1..Len(s) : s[i][2] >= e[2]})
  IN SubSeq(s, 1, k) \o <<e>> \o SubSeq(s, k + 1, Len(s))

\* entries.sort(([,a], [,b]) => b - a): Array.prototype.sort is stable
RECURSIVE SortDesc(_)
SortDesc(s) ==
  IF s = <<>> THEN <<>>
  ELSE InsertDesc(s[Len(s)], SortDesc(SubSeq(s, 1, Len(s) - 1)))

Min(a, b) == IF a <= b THEN a ELSE b

\* Array.prototype.slice(0, n)
Slice0(s, n) == SubSeq(s, 1, Min(n, Len(s)))

(***************************************************************************)
(* Garment records.                                                        *)
(***************************************************************************)
Rec(designer, brand, season, item, color, hex, mat, image) ==
  [designer |-> designer, brand |-> brand, season |-> season,
   item_name |-> item, color_name |-> color, color_hex |-> hex,
   materials |-> mat, original_image_name |-> image]

sDior == <<"D", "i", "o", "r">>
sPrada == <<"P", "r", "a", "d", "a">>
sFW25 == <<"F", "W", " ", "2", "5">>
sCoat == <<"c", "o", "a", "t">>
sCoatCap == <<"C", "o", "a", "t">>
sSkirt == <<"s", "k", "i", "r", "t">>
sRed == <<"r", "e", "d">>
sRedCap == <<"R", "e", "d">>
sBlue == <<"b", "l", "u", "e">>
sWool == <<"w", "o", "o", "l">>
sSilk == <<"s", "i", "l", "k">>
sTen == <<"1", "0">>
sTwo == <<"2">>
sHexRed == <<"#", "f", "0", "0">>
sHexRed2 == <<"#", "e", "0", "0">>
sImgA == <<"a">>
sImgB == <<"b">>
sImgC == <<"c">>

\* The dataset prop of FashionDashboard.
dataset == [designer |-> sDior, season |-> sFW25]

\* The records a dashboard response draws its first MaxFree records from:
\* case variants of one name, a record without color_hex, one with an empty
\* color_hex, names that are array indices, a record with its brand in brand
\* only and one with its brand in designer only, and a record of another
\* dataset.
RecordPool ==
  { Rec(sDior, sDior, sFW25, sCoat, sRed, sHexRed, sWool, sImgA),
    Rec(NULL, sDior, sFW25, sCoatCap, sRedCap, sHexRed2, sSilk, sImgA),
    Rec(sDior, NULL, sFW25, sSkirt, sBlue, NULL, sWool, sImgB),
    Rec(sDior, sDior, sFW25, sTen, sTen, <<>>, sTwo, sImgB),
    Rec(sPrada, sPrada, sFW25, sCoat, sRed, sHexRed, sWool, sImgC) }

\* The k-th record of a run of records with pairwise different names.
FreshName(k) == <<"t", Chars[CodeOf["a"] + k - 1]>>
FreshRecord(k) ==
  Rec(sDior, sDior, sFW25, FreshName(k), FreshName(k),
      <<"#", Chars[CodeOf["a"] + k - 1]>>, FreshName(k), FreshName(k))

FreshRun(n) == [k \in 1..n |-> FreshRecord(k)]

\* The responses of the analysis endpoint: up to MaxFree records of the pool,
\* followed by a run of records with new names, MaxRecords records at most.
Responses ==
  UNION { { free \o FreshRun(n) :
              n \in 0..(MaxRecords - m), free \in [1..m -> RecordPool] } :
          m \in 0..MaxFree }

(***************************************************************************)
(* FashionDashboard: the aggregation.  The three calculate*Distribution    *)
(* closures read rawData; here the record list is a parameter.             *)
(***************************************************************************)
\* records.forEach(item => { counts[displayForm(item[field])] += 1 })
RECURSIVE CountBy(_, _)
CountBy(records, field) ==
  IF records = <<>> THEN <<>>
  ELSE Increment(CountBy(SubSeq(records, 1, Len(records) - 1), field),
                 displayForm(records[Len(records)][field]))

calculateColorDistribution(records) == CountBy(records, "color_name")
calculateItemDistribution(records) == CountBy(records, "item_name")
calculateMaterialDistribution(records) == CountBy(records, "materials")

\* .slice(0, 10) of formatDistributionData
TopN == 10

\* the neutral gray of a color bucket without a hex value
sGray == <<"#", "8", "0", "8", "0", "8", "0">>

\* FindColorItem taking the last matching record instead of the first
FindColorItem_Last(records, name) ==
  LET hits == {i \in 1..Len(records) : displayForm(records[i].color_name) = name}
  IN IF hits = {} THEN 0 ELSE CHOOSE i \in hits : \A j \in hits : i >= j

\* rawData.find(item => displayForm(item.color_name) === name): the index
\* of the first such record, 0 when find returns undefined
FindColorItem(records, name) ==
  LET hits == {i \in 1..Len(records) : displayForm(records[i].color_name) = name}
  IN IF hits = {} THEN 0 ELSE CHOOSE i \in hits : \A j \in hits : i <= j

\* colorItem?.color_hex || '#808080'
ColorOf(records, name) ==
  LET colorItem == FindColorItem(records, name)
  IN IF colorItem = 0 THEN sGray ELSE OrElse(records[colorItem].color_hex, sGray)

SortedEntries(distribution) == SortDesc(ObjectEntries(distribution))

\* formatDistributionData without the .slice(0, 10)
formatDistributionData_NoSlice(distribution, type, records) ==
  LET entries == SortedEntries(distribution)
  IN IF type = "color"
     THEN [i \in 1..Len(entries) |->
             [name |-> entries[i][1], value |-> entries[i][2],
              color |-> ColorOf(records, entries[i][1])]]
     ELSE [i \in 1..Len(entries) |->
             [name |-> entries[i][1], value |-> entries[i][2]]]

formatDistributionData(distribution, type, records) ==
  LET entries == Slice0(SortedEntries(distribution), TopN)
  IN IF type = "color"
     THEN [i \in 1..Len(entries) |->
             [name |-> entries[i][1], value |-> entries[i][2],
              color |-> ColorOf(records, entries[i][1])]]
     ELSE [i \in 1..Len(entries) |->
             [name |-> entries[i][1], value |-> entries[i][2]]]

Types == {"color", "item", "material"}

FieldOf(type) ==
  CASE type = "color" -> "color_name"
    [] type = "item" -> "item_name"
    [] type = "material" -> "materials"

\* the distribution the dashboard computes for a chart, before formatting
Distribution(type, records) ==
  CASE type = "color" -> calculateColorDistribution(records)
    [] type = "item" -> calculateItemDistribution(records)
    [] type = "material" -> calculateMaterialDistribution(records)

\* the data prop the dashboard passes to the chart of a type
ChartData(type, records) ==
  formatDistributionData(Distribution(type, records), type, records)

(***************************************************************************)
(* Overview: the same counting, sorted but neither truncated nor colored.  *)
(***************************************************************************)
OverviewDistribution(type, records) ==
  LET entries == SortDesc(ObjectEntries(CountBy(records, FieldOf(type))))
  IN [i \in 1..Len(entries) |->
        [name |-> entries[i][1], value |-> entries[i][2]]]

(***************************************************************************)
(* PieChart.                                                               *)
(***************************************************************************)
\* data.slice(0, 10); buckets is the data prop
PieLimit == 10
\* the size prop the dashboard passes
ChartSize == 240
\* displayData.slice(0, 5) of the legend
LegendLimit == 5

displayData(buckets) == Slice0(buckets, PieLimit)

RECURSIVE SumValues(_)
SumValues(s) ==
  IF s = <<>> THEN 0 ELSE SumValues(SubSeq(s, 1, Len(s) - 1)) + s[Len(s)].value

\* displayData.reduce((sum, item) => sum + item.value, 0)
total(buckets) == SumValues(displayData(buckets))

radius == RSub(Rat(ChartSize, 2), RInt(10))
centerX == Rat(ChartSize, 2)
centerY == Rat(ChartSize, 2)

\* The point at angleInDegrees on the circle.  cos and sin have period 360
\* degrees and the pair (cos t, sin t) determines t modulo 360, so the point
\* x = cx + r cos(t), y = cy + r sin(t) with t = angleInDegrees - 90 is
\* represented, in exact arithmetic, by t modulo 360.
polarToCartesian(cx, cy, r, angleInDegrees) ==
  [cx |-> cx, cy |-> cy, r |-> r,
   t |-> RMod(RSub(angleInDegrees, RInt(90)), 360)]

createArcPath(startAngle, endAngle) ==
  LET start == polarToCartesian(centerX, centerY, radius, endAngle)
      end == polarToCartesian(centerX, centerY, radius, startAngle)
      largeArcFlag == IF RLe(RSub(endAngle, startAngle), RInt(180)) THEN "0" ELSE "1"
  IN [M |-> <<centerX, centerY>>, L |-> start,
      A |-> [rx |-> radius, ry |-> radius, rotation |-> 0,
             largeArcFlag |-> largeArcFlag, sweepFlag |-> 0, to |-> end]]

\* SlicesFrom with the update of cumulativePercentage left out
RECURSIVE SlicesFrom_NoUpdate(_, _, _, _)
SlicesFrom_NoUpdate(dd, tot, index, cumulativePercentage) ==
  IF index > Len(dd) THEN <<>>
  ELSE LET percentage == RMul(Rat(dd[index].value, tot), RInt(100))
           startAngle == RMul(cumulativePercentage, Rat(36, 10))
           endAngle == RMul(RAdd(cumulativePercentage, percentage), Rat(36, 10))
       IN <<[startAngle |-> startAngle, endAngle |-> endAngle,
             pathData |-> createArcPath(startAngle, endAngle),
             bucket |-> dd[index]]>>
          \o SlicesFrom_NoUpdate(dd, tot, index + 1, cumulativePercentage)

\* the body of displayData.map((item, index) => ...) from slice index on,
\* with the running cumulativePercentage
RECURSIVE SlicesFrom(_, _, _, _)
SlicesFrom(dd, tot, index, cumulativePercentage) ==
  IF index > Len(dd) THEN <<>>
  ELSE LET percentage == RMul(Rat(dd[index].value, tot), RInt(100))
           startAngle == RMul(cumulativePercentage, Rat(36, 10))
           endAngle == RMul(RAdd(cumulativePercentage, percentage), Rat(36, 10))
       IN <<[startAngle |-> startAngle, endAngle |-> endAngle,
             pathData |-> createArcPath(startAngle, endAngle),
             bucket |-> dd[index]]>>
          \o SlicesFrom(dd, tot, index + 1, RAdd(cumulativePercentage, percentage))

\* the <path> elements PieChart renders: none when total === 0 ("No data")
Slices(buckets) ==
  IF total(buckets) = 0 THEN <<>>
  ELSE SlicesFrom(displayData(buckets), total(buckets), 1, RInt(0))

\* the legend rows PieChart renders; the showAll prop is accepted and not read
Legend(buckets, showAll) ==
  IF total(buckets) = 0 THEN <<>> ELSE Slice0(displayData(buckets), LegendLimit)

\* whether the "+n more items" button is rendered
ToggleShown(buckets) ==
  total(buckets) # 0 /\ Len(displayData(buckets)) > LegendLimit

(***************************************************************************)
(* FashionDashboard: state and handlers.                                   *)
(***************************************************************************)
\* error === null
NoError == "null"

\* the messages setError can store: a non-OK response, a rejected fetch
ErrorMessages == {"HTTP error! status: 500", "Failed to fetch"}

\* the filter callback of fetchData: exact match of the trimmed designer
\* (or brand) and season with the dataset's
InDataset(item, ds) ==
  LET itemDesigner == Trim(OrElse(item.designer, OrElse(item.brand, <<>>)))
      itemSeason == Trim(OrElse(item.season, <<>>))
  IN itemDesigner = Trim(ds.designer) /\ itemSeason = Trim(ds.season)

\* filteredData.reduce(...): the records of each original_image_name, the
\* properties of the accumulator in creation order
RECURSIVE GroupByImage(_)
GroupByImage(records) ==
  IF records = <<>> THEN <<>>
  ELSE LET acc == GroupByImage(SubSeq(records, 1, Len(records) - 1))
           item == records[Len(records)]
           imageName == item.original_image_name
       IN IF HasKey(acc, imageName)
          THEN [i \in 1..Len(acc) |->
                  IF acc[i][1] = imageName
                  THEN <<imageName, Append(acc[i][2], item)>> ELSE acc[i]]
          ELSE Append(acc, <<imageName, <<item>>>>)

\* no response of a lambda yet
NoResponse == [fn |-> "none", statusCode |-> 0, body |-> <<>>]

\* the hover PieChart, FashionStatistics and the Chatbot after their first
\* render, and the empty table of the lambdas
InitOther ==
  /\ chartData = <<>>
  /\ hoveredSlice = <<>>
  /\ statColors = <<>>
  /\ statItems = <<>>
  /\ statMaterials = <<>>
  /\ selectedBrand = <<>>
  /\ selectedSeason = <<>>
  /\ table = {}
  /\ clock = 0
  /\ lambdaResponse = NoResponse
  /\ messages = <<>>
  /\ input = <<>>
  /\ chatLoading = FALSE
  /\ chatPending = <<>>

\* the state of every component after its first render: the mount effects
\* have called setLoading(true) and started their fetches
InitComponents ==
  /\ loading = TRUE
  /\ error = NoError
  /\ rawData = <<>>
  /\ data = <<>>
  /\ showAllColors = FALSE
  /\ showAllItems = FALSE
  /\ showAllMaterials = FALSE
  /\ selected = dataset
  /\ pending = <<dataset>>
  /\ dataLoading = TRUE
  /\ allData = <<>>
  /\ filters = [brand |-> <<>>, season |-> <<>>, color |-> <<>>,
                item |-> <<>>, material |-> <<>>]
  /\ filteredData = <<>>
  /\ datasets = <<>>
  /\ currentDataset = <<>>
  /\ InitOther

\* no helper has been called
NoCall == [fn |-> "none", value |-> <<>>]

Init ==
  /\ InitComponents
  /\ args = <<>>
  /\ returned = NoCall

\* s without its i-th element
RemoveAt(s, i) == SubSeq(s, 1, i - 1) \o SubSeq(s, i + 1, Len(s))

\* the fetchData call at position i of pending resolves with the OK response
\* result: the filter uses the dataset its closure captured
FetchDataResolve(i, result) ==
  LET filtered == SelectSeq(result, LAMBDA item : InDataset(item, pending[i]))
  IN /\ rawData' = filtered
     /\ data' = GroupByImage(filtered)
     /\ loading' = FALSE
     /\ pending' = RemoveAt(pending, i)
     /\ UNCHANGED <<error, showAllColors, showAllItems, showAllMaterials,
                    selected>>
     /\ UNCHANGED dataVars
     /\ UNCHANGED callVars
     /\ UNCHANGED extVars

\* the fetchData call at position i of pending throws: the response is not
\* OK, or fetch rejects
FetchDataReject(i, msg) ==
  /\ error' = msg
  /\ loading' = FALSE
  /\ pending' = RemoveAt(pending, i)
  /\ UNCHANGED <<rawData, data, showAllColors, showAllItems, showAllMaterials,
                 selected>>
  /\ UNCHANGED dataVars
  /\ UNCHANGED callVars
  /\ UNCHANGED extVars

\* fetchData resolves with an OK response
FetchDataOk ==
  \E i \in 1..Len(pending) : \E result \in Responses :
    FetchDataResolve(i, result)

\* fetchData throws
FetchDataFail ==
  \E i \in 1..Len(pending) : \E msg \in ErrorMessages :
    FetchDataReject(i, msg)

\* the dashboard renders its charts (neither the spinner nor the error)
ChartsShown == ~loading /\ error = NoError

\* onToggleShowAll of the color chart
ToggleShowAllColors ==
  /\ ChartsShown
  /\ ToggleShown(ChartData("color", rawData))
  /\ showAllColors' = ~showAllColors
  /\ UNCHANGED <<loading, error, rawData, data, showAllItems, showAllMaterials>>
  /\ UNCHANGED <<selected, pending>>
  /\ UNCHANGED dataVars
  /\ UNCHANGED callVars
  /\ UNCHANGED extVars

\* onToggleShowAll of the item chart
ToggleShowAllItems ==
  /\ ChartsShown
  /\ ToggleShown(ChartData("item", rawData))
  /\ showAllItems' = ~showAllItems
  /\ UNCHANGED <<loading, error, rawData, data, showAllColors, showAllMaterials>>
  /\ UNCHANGED <<selected, pending>>
  /\ UNCHANGED dataVars
  /\ UNCHANGED callVars
  /\ UNCHANGED extVars

\* onToggleShowAll of the material chart
ToggleShowAllMaterials ==
  /\ ChartsShown
  /\ ToggleShown(ChartData("material", rawData))
  /\ showAllMaterials' = ~showAllMaterials
  /\ UNCHANGED <<loading, error, rawData, data, showAllColors, showAllItems>>
  /\ UNCHANGED <<selected, pending>>
  /\ UNCHANGED dataVars
  /\ UNCHANGED callVars
  /\ UNCHANGED extVars

NextDashboard ==
  \/ FetchDataOk
  \/ FetchDataFail
  \/ ToggleShowAllColors
  \/ ToggleShowAllItems
  \/ ToggleShowAllMaterials

SpecDashboard == Init /\ [][NextDashboard]_vars

\* The fetch alone: every record list the dashboard can hold, without the
\* legend toggles, which leave rawData as it is.
NextFetch ==
  \/ FetchDataOk
  \/ FetchDataFail

SpecFetch == Init /\ [][NextFetch]_vars

(***************************************************************************)
(* Data page: the records, the filter effect and the filter dropdowns.     *)
(***************************************************************************)
sDiorLow == <<"d", "i", "o", "r">>
sMiu == <<"M", "i", "u">>
sFWHyphen == <<"F", "W", "-", "2", "5">>
sFWUnder == <<"f", "w", "_", "2", "5">>
sSSWide == <<"S", "S", " ", " ", "2", "5">>
sRaincoat == <<"r", "a", "i", "n", "c", "o", "a", "t">>

\* The records a Data page response is drawn from: the brand in designer or
\* in brand, one season in two spellings (for one designer too), names that
\* contain one another or differ in case, and absent fields.
DataPool ==
  { Rec(sDior, NULL, sFWHyphen, sCoat, sRed, sHexRed, sWool, sImgA),
    Rec(NULL, sDiorLow, sFWUnder, sRaincoat, sRedCap, NULL, NULL, sImgA),
    Rec(sPrada, sMiu, sSSWide, sCoat, sBlue, NULL, sSilk, sImgB),
    Rec(sDior, NULL, NULL, sSkirt, NULL, NULL, sWool, sImgC),
    Rec(sDior, NULL, sFWUnder, sCoat, sRed, sHexRed, sWool, sImgA) }

DataResponses == UNION {[1..n -> DataPool] : n \in 0..MaxData}

FilterTypes == {"brand", "season", "color", "item", "material"}

\* s.replace(/[-_]/g, ' ')
ReplaceSeparators(s) ==
  [i \in 1..Len(s) |-> IF s[i] = "-" \/ s[i] = "_" THEN " " ELSE s[i]]

\* s.replace(/\s+/g, ' ')
RECURSIVE CollapseSpaces(_)
CollapseSpaces(s) ==
  IF Len(s) < 2 THEN s
  ELSE IF s[1] = " " /\ s[2] = " " THEN CollapseSpaces(Tail(s))
  ELSE <<s[1]>> \o CollapseSpaces(Tail(s))

\* normalizeSeason of the filter effect
normalizeSeason(season) ==
  IF season = NULL \/ season = <<>> THEN <<>>
  ELSE Trim(CollapseSpaces(ReplaceSeparators(toLowerCase(season))))

\* s.split(' ')
RECURSIVE SplitSpaces(_)
SplitSpaces(s) ==
  IF \E i \in 1..Len(s) : s[i] = " "
  THEN LET k == CHOOSE i \in 1..Len(s) :
                  s[i] = " " /\ \A j \in 1..(i - 1) : s[j] # " "
       IN <<SubSeq(s, 1, k - 1)>> \o SplitSpaces(SubSeq(s, k + 1, Len(s)))
  ELSE <<s>>

\* words.join('-')
RECURSIVE JoinHyphen(_)
JoinHyphen(words) ==
  IF words = <<>> THEN <<>>
  ELSE IF Len(words) = 1 THEN words[1]
  ELSE words[1] \o <<"-">> \o JoinHyphen(Tail(words))

\* formatSeasonForDisplay of getUniqueValues
formatSeasonForDisplay(season) ==
  IF season = NULL \/ season = <<>> THEN <<>>
  ELSE LET normalized == Trim(CollapseSpaces(ReplaceSeparators(toLowerCase(season))))
           words == SplitSpaces(normalized)
       IN JoinHyphen([i \in 1..Len(words) |-> displayForm(words[i])])

\* the raw value a filter of a type reads from a record
brandOf(item) == OrElse(item.designer, OrElse(item.brand, <<>>))

\* the callback of the brand filter
MatchesBrand(item, f) ==
  includes(toLowerCase(brandOf(item)), toLowerCase(f.brand))

\* the callback of the season filter
MatchesSeason(item, f) ==
  includes(normalizeSeason(OrElse(item.season, <<>>)), normalizeSeason(f.season))

\* the callback of the color filter without the two toLowerCase calls
MatchesColor_CaseSensitive(item, f) ==
  includes(OrElse(item.color_name, <<>>), f.color)

\* the callback of the color filter
MatchesColor(item, f) ==
  includes(toLowerCase(OrElse(item.color_name, <<>>)), toLowerCase(f.color))

\* the callback of the item filter
MatchesItem(item, f) ==
  includes(toLowerCase(OrElse(item.item_name, <<>>)), toLowerCase(f.item))

\* the callback of the material filter
MatchesMaterial(item, f) ==
  includes(toLowerCase(OrElse(item.materials, <<>>)), toLowerCase(f.material))

\* ApplyFilters whose material step filters allData instead of filtered
ApplyFilters_MaterialFromAll(records, f) ==
  LET byBrand == IF f.brand # <<>>
                 THEN SelectSeq(records, LAMBDA item : MatchesBrand(item, f))
                 ELSE records
      bySeason == IF f.season # <<>>
                  THEN SelectSeq(byBrand, LAMBDA item : MatchesSeason(item, f))
                  ELSE byBrand
      byColor == IF f.color # <<>>
                 THEN SelectSeq(bySeason, LAMBDA item : MatchesColor(item, f))
                 ELSE bySeason
      byItem == IF f.item # <<>>
                THEN SelectSeq(byColor, LAMBDA item : MatchesItem(item, f))
                ELSE byColor
  IN IF f.material # <<>>
     THEN SelectSeq(records, LAMBDA item : MatchesMaterial(item, f))
     ELSE byItem

\* the filter effect: filtered = allData narrowed by each non-empty filter
\* in turn
ApplyFilters(records, f) ==
  LET byBrand == IF f.brand # <<>>
                 THEN SelectSeq(records, LAMBDA item : MatchesBrand(item, f))
                 ELSE records
      bySeason == IF f.season # <<>>
                  THEN SelectSeq(byBrand, LAMBDA item : MatchesSeason(item, f))
                  ELSE byBrand
      byColor == IF f.color # <<>>
                 THEN SelectSeq(bySeason, LAMBDA item : MatchesColor(item, f))
                 ELSE bySeason
      byItem == IF f.item # <<>>
                THEN SelectSeq(byColor, LAMBDA item : MatchesItem(item, f))
                ELSE byColor
  IN IF f.material # <<>>
     THEN SelectSeq(byItem, LAMBDA item : MatchesMaterial(item, f))
     ELSE byItem

\* the value getUniqueValues reads from a record for a key
OptionValue(item, key) ==
  CASE key = "brand" -> brandOf(item)
    [] key = "season" -> formatSeasonForDisplay(OrElse(item.season, <<>>))
    [] key = "color" -> OrElse(item.color_name, <<>>)
    [] key = "item" -> OrElse(item.item_name, <<>>)
    [] key = "material" -> OrElse(item.materials, <<>>)

\* the Set that the forEach of getUniqueValues fills from sourceData
OptionSet(sourceData, key) ==
  { IF key = "season" THEN OptionValue(sourceData[i], key)
    ELSE displayForm(OptionValue(sourceData[i], key)) :
      i \in {j \in 1..Len(sourceData) :
               Trim(OptionValue(sourceData[j], key)) # <<>>} }

\* Array.from(values).sort(): ascending by code unit
RECURSIVE SortStrings(_)
SortStrings(values) ==
  IF values = {} THEN <<>>
  ELSE LET least == CHOOSE v \in values :
                      \A w \in values : w = v \/ StrLess(v, w)
       IN <<least>> \o SortStrings(values \ {least})

\* getUniqueValues reading allData in every case
getUniqueValues_AllData(key, filtered, all) == SortStrings(OptionSet(all, key))

\* getUniqueValues: the options of a filter dropdown; the closure reads the
\* states filteredData and allData, which are parameters here
getUniqueValues(key, filtered, all) ==
  LET sourceData == IF Len(filtered) > 0 THEN filtered ELSE all
  IN SortStrings(OptionSet(sourceData, key))

\* the values of the options of a dropdown
Options(key, filtered, all) ==
  {getUniqueValues(key, filtered, all)[i] :
     i \in 1..Len(getUniqueValues(key, filtered, all))}

(***************************************************************************)
(* Data page: dataset detection.                                           *)
(***************************************************************************)
sUnknownDesigner == <<"U", "n", "k", "n", "o", "w", "n", " ", "D", "e", "s", "i", "g", "n", "e", "r">>
sUnknownSeason == <<"U", "n", "k", "n", "o", "w", "n", " ", "S", "e", "a", "s", "o", "n">>

\* s.replace(/\s+/g, '-')
RECURSIVE HyphenateSpaces(_)
HyphenateSpaces(s) ==
  IF s = <<>> THEN <<>>
  ELSE IF s[1] = " "
       THEN <<"-">> \o HyphenateSpaces(TrimStart(s))
       ELSE <<s[1]>> \o HyphenateSpaces(Tail(s))

\* s.toLowerCase().replace(/\s+/g, '-')
slug(s) == HyphenateSpaces(toLowerCase(s))

\* the designer and the season fetchAndDetectDatasets reads from a record
detectedDesigner(item) == Trim(OrElse(item.designer, sUnknownDesigner))
detectedSeason(item) == Trim(OrElse(item.season, sUnknownSeason))

\* `${slug(designer)}-${slug(season)}`
datasetId(item) ==
  slug(detectedDesigner(item)) \o <<"-">> \o slug(detectedSeason(item))

\* data.forEach(...): the values of datasetMap in insertion order, the first
\* record of an id giving the dataset its designer and season
RECURSIVE DatasetMap(_)
DatasetMap(records) ==
  IF records = <<>> THEN <<>>
  ELSE LET acc == DatasetMap(SubSeq(records, 1, Len(records) - 1))
           item == records[Len(records)]
       IN IF \E i \in 1..Len(acc) : acc[i].id = datasetId(item)
          THEN acc
          ELSE Append(acc, [id |-> datasetId(item),
                            designer |-> detectedDesigner(item),
                            season |-> detectedSeason(item)])

\* The primary weight of a character in the root collation localeCompare
\* uses: white space, then punctuation ("_" before "-" before "#"), then
\* digits, then letters without regard to case.
PrimaryWeight(c) ==
  IF c = " " THEN 1
  ELSE IF c = "_" THEN 2
  ELSE IF c = "-" THEN 3
  ELSE IF c = "#" THEN 4
  ELSE IF c \in Digits THEN 5 + DigitVal(c)
  ELSE 15 + CodeOf[ToLowerChar(c)]

\* a before b at the primary level; 0 when the primary keys are equal
RECURSIVE PrimaryCompare(_, _)
PrimaryCompare(a, b) ==
  IF a = <<>> /\ b = <<>> THEN 0
  ELSE IF a = <<>> THEN -1
  ELSE IF b = <<>> THEN 1
  ELSE IF PrimaryWeight(a[1]) < PrimaryWeight(b[1]) THEN -1
  ELSE IF PrimaryWeight(a[1]) > PrimaryWeight(b[1]) THEN 1
  ELSE PrimaryCompare(Tail(a), Tail(b))

\* the tertiary level, for strings with equal primary keys: at the first
\* difference the lower-case letter comes first
RECURSIVE CaseCompare(_, _)
CaseCompare(a, b) ==
  IF a = <<>> \/ b = <<>> THEN 0
  ELSE IF a[1] = b[1] THEN CaseCompare(Tail(a), Tail(b))
  ELSE IF IsLowerChar(a[1]) THEN -1 ELSE 1

\* a.localeCompare(b)
localeCompare(a, b) ==
  IF PrimaryCompare(a, b) # 0 THEN PrimaryCompare(a, b) ELSE CaseCompare(a, b)

\* the comparator of detectedDatasets.sort
CompareDatasets(a, b) ==
  IF a.designer # b.designer THEN localeCompare(a.designer, b.designer)
  ELSE localeCompare(a.season, b.season)

\* detectedDatasets.sort(...): a stable insertion of each dataset
RECURSIVE InsertDataset(_, _)
InsertDataset(d, s) ==
  IF s = <<>> THEN <<d>>
  ELSE IF CompareDatasets(s[Len(s)], d) <= 0 THEN Append(s, d)
  ELSE Append(InsertDataset(d, SubSeq(s, 1, Len(s) - 1)), s[Len(s)])

RECURSIVE SortDatasets(_)
SortDatasets(s) ==
  IF s = <<>> THEN <<>>
  ELSE InsertDataset(s[Len(s)], SortDatasets(SubSeq(s, 1, Len(s) - 1)))

\* the datasets fetchAndDetectDatasets stores for a response
detectedDatasets(response) == SortDatasets(DatasetMap(response))

\* Object.values(filters).filter(Boolean).length
activeFiltersCount == Cardinality({t \in FilterTypes : filters[t] # <<>>})

\* the filter section is rendered
FiltersShown == ~dataLoading /\ Len(allData) > 0

\* what the Data page renders: the spinner, or the heading with the filter
\* section and the dashboard when there is something to show in them; no
\* branch of the render shows an error
DataView ==
  IF dataLoading THEN {"spinner"}
  ELSE {"heading"}
         \cup (IF Len(allData) > 0 THEN {"filters"} ELSE {})
         \cup (IF currentDataset # <<>> /\ Len(datasets) > 0
               THEN {"dashboard"} ELSE {})

\* fetchAndDetectDatasets resolves with an OK response; the filter effect
\* then runs on the new allData
FetchAndDetectOk ==
  /\ dataLoading
  /\ \E response \in DataResponses :
       /\ allData' = response
       /\ datasets' = detectedDatasets(response)
       /\ currentDataset' = IF detectedDatasets(response) # <<>>
                            THEN detectedDatasets(response)[1].id
                            ELSE currentDataset
       /\ filteredData' = ApplyFilters(response, filters)
  /\ dataLoading' = FALSE
  /\ UNCHANGED filters
  /\ UNCHANGED dashVars
  /\ UNCHANGED callVars
  /\ UNCHANGED extVars

\* fetchAndDetectDatasets throws: the error is logged, loading ends
FetchAndDetectFail ==
  /\ dataLoading
  /\ dataLoading' = FALSE
  /\ UNCHANGED <<allData, filters, filteredData, datasets, currentDataset>>
  /\ UNCHANGED dashVars
  /\ UNCHANGED callVars
  /\ UNCHANGED extVars

\* handleFilterChange from the onChange of a dropdown, whose options are
\* the empty "All" option and getUniqueValues of its type; the filter
\* effect then runs on the new filters
HandleFilterChange ==
  /\ FiltersShown
  /\ \E filterType \in FilterTypes :
       \E value \in {<<>>} \cup Options(filterType, filteredData, allData) :
         /\ filters' = [filters EXCEPT ![filterType] = value]
         /\ filteredData' = ApplyFilters(allData, filters')
  /\ UNCHANGED <<dataLoading, allData, datasets, currentDataset>>
  /\ UNCHANGED dashVars
  /\ UNCHANGED callVars
  /\ UNCHANGED extVars

\* the filters clearFilters stores
NoFilters ==
  [brand |-> <<>>, season |-> <<>>, color |-> <<>>, item |-> <<>>,
   material |-> <<>>]

\* clearFilters that forgets the season filter
ClearFilters_KeepSeason ==
  /\ FiltersShown
  /\ activeFiltersCount > 0
  /\ filters' = [NoFilters EXCEPT !.season = filters.season]
  /\ filteredData' = ApplyFilters(allData, filters')
  /\ UNCHANGED <<dataLoading, allData, datasets, currentDataset>>
  /\ UNCHANGED dashVars
  /\ UNCHANGED callVars
  /\ UNCHANGED extVars

\* clearFilters from the "Clear all filters" button; the filter effect then
\* runs on the new filters
ClearFilters ==
  /\ FiltersShown
  /\ activeFiltersCount > 0
  /\ filters' = [brand |-> <<>>, season |-> <<>>, color |-> <<>>,
                 item |-> <<>>, material |-> <<>>]
  /\ filteredData' = ApplyFilters(allData, filters')
  /\ UNCHANGED <<dataLoading, allData, datasets, currentDataset>>
  /\ UNCHANGED dashVars
  /\ UNCHANGED callVars
  /\ UNCHANGED extVars

NextData ==
  \/ FetchAndDetectOk
  \/ FetchAndDetectFail
  \/ HandleFilterChange
  \/ ClearFilters

SpecData == Init /\ [][NextData]_vars

(***************************************************************************)
(* The season normalizers, called on their own.                            *)
(***************************************************************************)
sFallWinter2024 == <<"F", "a", "l", "l", "-", "W", "i", "n", "t", "e", "r", " ", "2", "0", "2", "4">>
sSpringSummer2024 == <<"S", "p", "r", "i", "n", "g", "-", "S", "u", "m", "m", "e", "r", " ", "2", "0", "2", "4">>
sFall == <<"f", "a", "l", "l">>
sWinter == <<"w", "i", "n", "t", "e", "r">>
sSpring == <<"s", "p", "r", "i", "n", "g">>
sSummer == <<"s", "u", "m", "m", "e", "r">>
s2024 == <<"2", "0", "2", "4">>
s2025 == <<"2", "0", "2", "5">>

\* normalizeSeason of FashionStatistics (part_003): the two 2024 seasons are
\* given one spelling, every other value is returned as it came
normalizeSeasonStatistics(s) ==
  IF s = NULL \/ s = <<>> THEN s
  ELSE LET lower == CollapseSpaces(ReplaceSeparators(toLowerCase(s)))
       IN IF includes(lower, sFall) /\ includes(lower, sWinter)
               /\ includes(lower, s2024)
          THEN sFallWinter2024
          ELSE IF includes(lower, sSpring) /\ includes(lower, sSummer)
                    /\ includes(lower, s2024)
          THEN sSpringSummer2024
          ELSE s

\* String.prototype.toUpperCase
toUpperCase(s) == [i \in 1..Len(s) |-> ToUpperChar(s[i])]

\* length of the longest season string built freely from SeasonAlphabet
MaxShort == 2

SeasonAlphabet == {"F", "w", "-", "_", " ", "2"}

\* the separators a season is written with
Separators == {<<"-">>, <<"_">>, <<" ">>, <<" ", " ">>}

\* The season strings the normalizers are called with: every string of
\* SeasonAlphabet up to MaxShort characters, and the spellings of the
\* fall-winter seasons of 2024 and 2025.
SeasonInputs ==
  UNION {[1..n -> SeasonAlphabet] : n \in 0..MaxShort}
    \cup { a \o p \o b \o q \o y :
             a \in {sFall, displayForm(sFall)},
             p \in Separators, q \in Separators,
             b \in {sWinter, displayForm(sWinter)},
             y \in {s2024, s2025} }

\* the components as mounted, a helper about to be called with a season
InitNormalize ==
  /\ InitComponents
  /\ args \in SeasonInputs
  /\ returned = NoCall

\* normalizeSeason of the Data page is called with args
CallNormalizeSeason ==
  /\ returned = NoCall
  /\ returned' = [fn |-> "normalizeSeason", value |-> normalizeSeason(args)]
  /\ UNCHANGED args
  /\ UNCHANGED dashVars
  /\ UNCHANGED dataVars
  /\ UNCHANGED extVars

\* normalizeSeason of FashionStatistics is called with args
CallNormalizeSeasonStatistics ==
  /\ returned = NoCall
  /\ returned' = [fn |-> "normalizeSeasonStatistics",
                  value |-> normalizeSeasonStatistics(args)]
  /\ UNCHANGED args
  /\ UNCHANGED dashVars
  /\ UNCHANGED dataVars
  /\ UNCHANGED extVars

NextNormalize ==
  \/ CallNormalizeSeason
  \/ CallNormalizeSeasonStatistics

SpecNormalize == InitNormalize /\ [][NextNormalize]_vars

(***************************************************************************)
(* FashionDashboard: the folder of a card's image.                         *)
(***************************************************************************)
sLouisVuitton == <<"l", "o", "u", "i", "s", " ", "v", "u", "i", "t", "t", "o", "n">>
sChanel == <<"c", "h", "a", "n", "e", "l">>
sMiuMiu == <<"m", "i", "u", " ", "m", "i", "u">>
sFallWinter2025 == <<"f", "a", "l", "l", "-", "w", "i", "n", "t", "e", "r", "-", "2", "0", "2", "5">>
sSpringSummer2025 == <<"s", "p", "r", "i", "n", "g", "-", "s", "u", "m", "m", "e", "r", "-", "2", "0", "2", "5">>
sFallWinter == <<"f", "a", "l", "l", "-", "w", "i", "n", "t", "e", "r">>
sReadyToWear == <<"-", "r", "e", "a", "d", "y", "-", "t", "o", "-", "w", "e", "a", "r", "-">>
sParis == <<"-", "p", "a", "r", "i", "s">>
sDefaultFolder == <<"f", "a", "s", "h", "i", "o", "n", "-", "i", "n", "t", "e", "l", "l", "i", "g", "e", "n", "c", "e", "-", "i", "n", "p", "u", "t">>
sConstructor == <<"c", "o", "n", "s", "t", "r", "u", "c", "t", "o", "r">>
sProto == <<"_", "_", "p", "r", "o", "t", "o", "_", "_">>
sPrototype == <<"p", "r", "o", "t", "o", "t", "y", "p", "e">>
sName == <<"n", "a", "m", "e">>
sLength == <<"l", "e", "n", "g", "t", "h">>
sObject == <<"O", "b", "j", "e", "c", "t">>

\* the brand keys of folderMap
FolderBrands == {sLouisVuitton, sChanel, sMiuMiu}

\* folderMap[brandKey][seasonKey] for the own properties of the literal: the
\* spring-summer folders are spelled "spring-winter"
folderMap(brandKey, seasonKey) ==
  LET dashed == HyphenateSpaces(brandKey)
  IN IF brandKey \in FolderBrands /\ seasonKey = sFallWinter2025
     THEN dashed \o sReadyToWear \o sFallWinter2025 \o sParis
     ELSE IF brandKey \in FolderBrands /\ seasonKey = sSpringSummer2025
     THEN dashed \o sReadyToWear \o <<"s", "p", "r", "i", "n", "g", "-", "w", "i", "n", "t", "e", "r", "-", "2", "0", "2", "5">> \o sParis
     ELSE NULL

\* values that are not strings: the Object constructor, Object.prototype,
\* the Function constructor, the number 1, and a thrown TypeError
FunctionObject == <<"function Object">>
ObjectPrototype == <<"Object.prototype">>
FunctionFunction == <<"function Function">>
FunctionPrototype == <<"Function.prototype">>
NumberOne == <<"number 1">>
TypeError == <<"TypeError">>

\* the property key of the Object constructor, for the keys of the model
ObjectConstructorGet(key) ==
  IF key = sName THEN sObject
  ELSE IF key = sLength THEN NumberOne
  ELSE IF key = sPrototype THEN ObjectPrototype
  ELSE IF key = sConstructor THEN FunctionFunction
  ELSE IF key = sProto THEN FunctionPrototype
  ELSE NULL

\* the property key of Object.prototype, which every object literal
\* inherits from; its own __proto__ is null
ObjectPrototypeGet(key) ==
  IF key = sConstructor THEN FunctionObject ELSE NULL

\* folderMap[brandKey]?.[seasonKey], own and inherited properties
FolderLookup(brandKey, seasonKey) ==
  IF brandKey \in FolderBrands
  THEN IF folderMap(brandKey, seasonKey) # NULL
       THEN folderMap(brandKey, seasonKey)
       ELSE IF seasonKey = sProto THEN ObjectPrototype
       ELSE ObjectPrototypeGet(seasonKey)
  ELSE IF brandKey = sConstructor THEN ObjectConstructorGet(seasonKey)
  ELSE IF brandKey = sProto THEN ObjectPrototypeGet(seasonKey)
  ELSE NULL

\* getFolder(brand, season); toLowerCase of an absent field throws
getFolder(brand, season) ==
  IF brand = NULL \/ season = NULL THEN TypeError
  ELSE LET brandKey == toLowerCase(brand)
           seasonKey == HyphenateSpaces(toLowerCase(season))
       IN OrElse(FolderLookup(brandKey, seasonKey), sDefaultFolder)

\* getS3FolderPathForItem(item), the helper passed to every card
getS3FolderPathForItem(item) ==
  IF item.brand = NULL \/ item.original_image_name = NULL THEN TypeError
  ELSE LET brand == toLowerCase(item.brand)
           imageName == toLowerCase(item.original_image_name)
           dashed == HyphenateSpaces(brand)
       IN IF brand \in FolderBrands
          THEN IF includes(imageName, sFallWinter)
               THEN dashed \o sReadyToWear \o sFallWinter2025 \o sParis
               ELSE dashed \o sReadyToWear \o sSpringSummer2025 \o sParis
          ELSE sDefaultFolder

\* the bucket every card is given
sRunwayImages == <<"r", "u", "n", "w", "a", "y", "i", "m", "a", "g", "e", "s">>

\* FashionCard for one entry <<imageName, items>> of data: the folder of the
\* first record and the parts of
\* `https://${s3Bucket}.s3.eu-west-2.amazonaws.com/${folder}/${imageName}`;
\* both are TypeError when getFolder throws and the render with it
FashionCard(entry) ==
  LET item == entry[2][1]
      folder == getFolder(item.brand, item.season)
  IN IF folder = TypeError THEN [folder |-> TypeError, imageUrl |-> TypeError]
     ELSE [folder |-> folder,
           imageUrl |-> <<sRunwayImages, folder, item.original_image_name>>]

\* The brand strings and the season strings the resolver is called with.
BrandInputs ==
  { <<"C", "h", "a", "n", "e", "l">>,
    <<"c", "h", "a", "n", "e", "l">>,
    <<"C", "H", "A", "N", "E", "L">>,
    <<"L", "o", "u", "i", "s", " ", "V", "u", "i", "t", "t", "o", "n">>,
    <<"l", "o", "u", "i", "s", "-", "v", "u", "i", "t", "t", "o", "n">>,
    <<"L", "o", "u", "i", "s", " ", " ", "V", "u", "i", "t", "t", "o", "n">>,
    <<"M", "i", "u", "_", "M", "i", "u">>,
    <<" ", "c", "h", "a", "n", "e", "l">>,
    <<"U", "n", "k", "n", "o", "w", "n", " ", "B", "r", "a", "n", "d">>,
    <<"D", "i", "o", "r">>,
    <<>>,
    <<"c", "o", "n", "s", "t", "r", "u", "c", "t", "o", "r">>,
    <<"_", "_", "p", "r", "o", "t", "o", "_", "_">> }

FolderSeasonInputs ==
  { <<"F", "a", "l", "l", "-", "W", "i", "n", "t", "e", "r", " ", "2", "0", "2", "5">>,
    <<"f", "a", "l", "l", "_", "w", "i", "n", "t", "e", "r", "_", "2", "0", "2", "5">>,
    <<"F", "a", "l", "l", " ", " ", "W", "i", "n", "t", "e", "r", " ", " ", " ", "2", "0", "2", "5">>,
    <<"f", "a", "l", "l", "-", "w", "i", "n", "t", "e", "r", "-", "2", "0", "2", "5">>,
    <<"S", "p", "r", "i", "n", "g", " ", "S", "u", "m", "m", "e", "r", " ", "2", "0", "2", "5">>,
    <<"S", "p", "r", "i", "n", "g", " ", "2", "0", "2", "5">>,
    <<"F", "a", "l", "l", " ", "W", "i", "n", "t", "e", "r", " ", "2", "0", "2", "4">>,
    <<>>,
    <<"n", "a", "m", "e">>,
    <<"c", "o", "n", "s", "t", "r", "u", "c", "t", "o", "r">>,
    <<"l", "o", "o", "k", "-", "f", "a", "l", "l", "-", "w", "i", "n", "t", "e", "r", "-", "0", "1">> }

\* the components as mounted, the resolver about to be called
InitFolder ==
  /\ InitComponents
  /\ args \in BrandInputs \X FolderSeasonInputs
  /\ returned = NoCall

\* getFolder is called with args
CallGetFolder ==
  /\ returned = NoCall
  /\ returned' = [fn |-> "getFolder", value |-> getFolder(args[1], args[2])]
  /\ UNCHANGED args
  /\ UNCHANGED dashVars
  /\ UNCHANGED dataVars
  /\ UNCHANGED extVars

\* getS3FolderPathForItem is called with a record whose brand and image name
\* are args
CallGetS3FolderPathForItem ==
  /\ returned = NoCall
  /\ returned' =
       [fn |-> "getS3FolderPathForItem",
        value |-> getS3FolderPathForItem(
                    Rec(NULL, args[1], NULL, NULL, NULL, NULL, NULL, args[2]))]
  /\ UNCHANGED args
  /\ UNCHANGED dashVars
  /\ UNCHANGED dataVars
  /\ UNCHANGED extVars

NextFolder ==
  \/ CallGetFolder
  \/ CallGetS3FolderPathForItem

SpecFolder == InitFolder /\ [][NextFolder]_vars

(***************************************************************************)
(* FashionDashboard under a dataset selector: the dataset prop changes       *)
(* while the component stays mounted, and fetches overlap.                 *)
(***************************************************************************)
\* fetchData calls that may be in flight at once
MaxPending == 2
\* length of the longest response in the dataset-selection model
MaxShortResponse == 2

\* the datasets the selector offers
datasetB == [designer |-> sPrada, season |-> sFW25]
Datasets == {dataset, datasetB}

\* the records of the endpoint in the dataset-selection model: two of the
\* first dataset, one of the second
ShortPool ==
  { Rec(sDior, sDior, sFW25, sCoat, sRed, sHexRed, sWool, sImgA),
    Rec(sDior, sDior, sFW25, sSkirt, sBlue, NULL, sWool, sImgB),
    Rec(sPrada, sPrada, sFW25, sCoat, sRed, sHexRed, sWool, sImgC) }

ShortResponses == UNION {[1..n -> ShortPool] : n \in 0..MaxShortResponse}

\* onDatasetChange picks another dataset: the parent renders FashionDashboard
\* with the new prop, and the effect calls setLoading(true) and starts a
\* fetch; nothing is cancelled and error is not reset
ChangeDataset ==
  /\ Len(pending) < MaxPending
  /\ \E d \in Datasets \ {selected} :
       /\ selected' = d
       /\ pending' = Append(pending, d)
  /\ loading' = TRUE
  /\ UNCHANGED <<error, rawData, data, showAllColors, showAllItems,
                 showAllMaterials>>
  /\ UNCHANGED dataVars
  /\ UNCHANGED callVars
  /\ UNCHANGED extVars

\* fetchData resolves with an OK response of the dataset-selection model
FetchDataOkShort ==
  \E i \in 1..Len(pending) : \E result \in ShortResponses :
    FetchDataResolve(i, result)

NextSelect ==
  \/ ChangeDataset
  \/ FetchDataOkShort
  \/ FetchDataFail

SpecSelect == Init /\ [][NextSelect]_vars

(***************************************************************************)
(* The distributions over records with absent fields.  The calculators     *)
(* call item.<field>.charAt(0) on every record, which throws a TypeError   *)
(* when the field is absent; only color_hex is read behind ?. and ||.      *)
(***************************************************************************)
\* length of the longest record list the calculators are called with
MaxAggregate == 2

\* a complete record and one record without each of color_name, item_name,
\* materials and color_hex
AggregatePool ==
  { Rec(sDior, sDior, sFW25, sCoat, sRed, sHexRed, sWool, sImgA),
    Rec(sDior, sDior, sFW25, sCoat, NULL, sHexRed, sWool, sImgA),
    Rec(sDior, sDior, sFW25, NULL, sRed, sHexRed, sWool, sImgB),
    Rec(sDior, sDior, sFW25, sSkirt, sBlue, sHexRed2, NULL, sImgB),
    Rec(sDior, sDior, sFW25, sSkirt, sBlue, NULL, sSilk, sImgC) }

AggregateInputs == UNION {[1..n -> AggregatePool] : n \in 1..MaxAggregate}

\* rawData.forEach(item => item.<field>.charAt(0) ...) reaches a record
\* whose field is undefined
ThrowsTypeError(records, field) ==
  \E i \in 1..Len(records) : records[i][field] = NULL

\* formatDistributionData(calculate<Type>Distribution(), type) as the
\* dashboard's render evaluates it: the exception, or the buckets
DashboardAggregate(type, records) ==
  IF ThrowsTypeError(records, FieldOf(type))
  THEN [type |-> type, threw |-> TRUE, buckets |-> <<>>]
  ELSE [type |-> type, threw |-> FALSE, buckets |-> ChartData(type, records)]

\* calculate<Type>Distribution() of Overview
OverviewAggregate(type, records) ==
  IF ThrowsTypeError(records, FieldOf(type))
  THEN [type |-> type, threw |-> TRUE, buckets |-> <<>>]
  ELSE [type |-> type, threw |-> FALSE,
        buckets |-> OverviewDistribution(type, records)]

\* the components as mounted, the calculators about to run over args
InitAggregate ==
  /\ InitComponents
  /\ args \in AggregateInputs
  /\ returned = NoCall

\* FashionDashboard renders a chart over the records args
CallDashboardAggregate ==
  /\ returned = NoCall
  /\ \E type \in Types :
       returned' = [fn |-> "FashionDashboard",
                    value |-> DashboardAggregate(type, args)]
  /\ UNCHANGED args
  /\ UNCHANGED dashVars
  /\ UNCHANGED dataVars
  /\ UNCHANGED extVars

\* Overview renders a chart over the records args
CallOverviewAggregate ==
  /\ returned = NoCall
  /\ \E type \in Types :
       returned' = [fn |-> "Overview",
                    value |-> OverviewAggregate(type, args)]
  /\ UNCHANGED args
  /\ UNCHANGED dashVars
  /\ UNCHANGED dataVars
  /\ UNCHANGED extVars

NextAggregate ==
  \/ CallDashboardAggregate
  \/ CallOverviewAggregate

SpecAggregate == InitAggregate /\ [][NextAggregate]_vars

(***************************************************************************)
(* The tags of an image card.                                              *)
(***************************************************************************)
\* [...new Set(values)]: the values without repetition, in the order of
\* their first occurrence
RECURSIVE SetOrder(_)
SetOrder(values) ==
  IF values = <<>> THEN <<>>
  ELSE LET before == SetOrder(SubSeq(values, 1, Len(values) - 1))
           v == values[Len(values)]
       IN IF \E i \in 1..Len(before) : before[i] = v
          THEN before ELSE Append(before, v)

\* getUniqueItems: the raw values are made unique first, and each of them is
\* capitalised afterwards
getUniqueItems(items, key) ==
  LET uniqueValues == SetOrder([i \in 1..Len(items) |-> items[i][key]])
  IN [i \in 1..Len(uniqueValues) |-> displayForm(uniqueValues[i])]

\* getUniqueColors: a Map from the capitalised color name to the hex of the
\* first record with that name, in insertion order
RECURSIVE getUniqueColors(_)
getUniqueColors(items) ==
  IF items = <<>> THEN <<>>
  ELSE LET uniqueColors == getUniqueColors(SubSeq(items, 1, Len(items) - 1))
           item == items[Len(items)]
           colorName == displayForm(item.color_name)
       IN IF \E i \in 1..Len(uniqueColors) : uniqueColors[i].name = colorName
          THEN uniqueColors
          ELSE Append(uniqueColors, [name |-> colorName, hex |-> item.color_hex])

\* the three tag lists FashionCard renders for an entry of data
CardTags(entry) ==
  [uniqueClothing |-> getUniqueItems(entry[2], "item_name"),
   uniqueColors |-> getUniqueColors(entry[2]),
   uniqueMaterials |-> getUniqueItems(entry[2], "materials")]

(***************************************************************************)
(* The Data page with the dashboard it renders.  FashionDashboard is       *)
(* mounted once currentDataset and datasets are set; its props interface   *)
(* declares dataset only, so the filteredData prop of the page is not      *)
(* read, and the dataset prop keeps its identity across filter changes.    *)
(***************************************************************************)
\* currentDataset && datasets.length > 0
DashboardMounted == currentDataset # <<>> /\ Len(datasets) > 0

\* datasets.find(d => d.id === currentDataset), of a list of datasets
FindDataset(list, id) ==
  LET k == CHOOSE k \in 1..Len(list) :
             /\ list[k].id = id
             /\ \A l \in 1..(k - 1) : list[l].id # id
  IN [designer |-> list[k].designer, season |-> list[k].season]

\* the filteredData prop the page passes to the dashboard: the filtered
\* records, or undefined
FilteredDataProp ==
  [defined |-> activeFiltersCount > 0,
   records |-> IF activeFiltersCount > 0 THEN filteredData ELSE <<>>]

\* the Data page as mounted: the dashboard is not rendered yet
InitPage ==
  /\ loading = TRUE
  /\ error = NoError
  /\ rawData = <<>>
  /\ data = <<>>
  /\ showAllColors = FALSE
  /\ showAllItems = FALSE
  /\ showAllMaterials = FALSE
  /\ selected = dataset
  /\ pending = <<>>
  /\ dataLoading = TRUE
  /\ allData = <<>>
  /\ filters = NoFilters
  /\ filteredData = <<>>
  /\ datasets = <<>>
  /\ currentDataset = <<>>
  /\ InitOther
  /\ args = <<>>
  /\ returned = NoCall

\* fetchAndDetectDatasets resolves with an OK response; the filter effect
\* runs on the new allData, and with a dataset detected the dashboard is
\* mounted and its effect starts fetchData for that dataset
PageFetchAndDetectOk ==
  /\ dataLoading
  /\ \E response \in DataResponses :
       /\ allData' = response
       /\ datasets' = detectedDatasets(response)
       /\ currentDataset' = IF detectedDatasets(response) # <<>>
                            THEN detectedDatasets(response)[1].id
                            ELSE currentDataset
       /\ filteredData' = ApplyFilters(response, filters)
       /\ IF detectedDatasets(response) # <<>>
          THEN /\ selected' = FindDataset(datasets', currentDataset')
               /\ pending' = <<selected'>>
          ELSE UNCHANGED <<selected, pending>>
  /\ dataLoading' = FALSE
  /\ UNCHANGED filters
  /\ UNCHANGED <<loading, error, rawData, data, showAllColors, showAllItems,
                 showAllMaterials>>
  /\ UNCHANGED callVars
  /\ UNCHANGED extVars

\* fetchData of the mounted dashboard resolves: the endpoint is the one the
\* page fetched, and returns the records the page got
PageFetchDataOk ==
  /\ DashboardMounted
  /\ \E i \in 1..Len(pending) : FetchDataResolve(i, allData)

\* fetchData of the mounted dashboard throws
PageFetchDataFail ==
  /\ DashboardMounted
  /\ FetchDataFail

NextPage ==
  \/ PageFetchAndDetectOk
  \/ FetchAndDetectFail
  \/ PageFetchDataOk
  \/ PageFetchDataFail
  \/ HandleFilterChange
  \/ ClearFilters

SpecPage == InitPage /\ [][NextPage]_vars

(***************************************************************************)
(* PieChart with a hover tooltip.  hoveredSlice is component state: it     *)
(* survives a render with another data prop, and only handleMouseLeave     *)
(* resets it.                                                              *)
(***************************************************************************)
\* the longest data prop of the hover model
MaxBuckets == 4
\* the largest pointer offset inside the chart
MaxOffset == 1

\* the data props the parent renders the chart with
ChartInputs ==
  { [k \in 1..n |-> [name |-> FreshName(k), value |-> v]] :
      n \in 0..MaxBuckets, v \in 1..2 }

\* the chart renders its paths and its tooltip, not "No data"
PathsRendered == total(chartData) # 0

\* {hoveredSlice && (...)} below the early return for total === 0
TooltipRendered == PathsRendered /\ hoveredSlice # <<>>

\* displayData[hoveredSlice.index].name of the tooltip: the name, or the
\* TypeError of reading a property of undefined; indices count from 0
TooltipName ==
  IF hoveredSlice[1].index < Len(displayData(chartData))
  THEN displayData(chartData)[hoveredSlice[1].index + 1].name
  ELSE TypeError

\* the parent renders the chart with another data prop
ChangeChartData ==
  /\ \E d \in ChartInputs \ {chartData} : chartData' = d
  /\ UNCHANGED hoveredSlice
  /\ UNCHANGED <<dashVars, dataVars, callVars>>
  /\ UNCHANGED <<statVars, looksVars, chatVars>>

\* handleMouseMove from the onMouseMove of the path of a slice
handleMouseMove ==
  /\ PathsRendered
  /\ \E index \in 0..(Len(displayData(chartData)) - 1) :
       \E x \in 0..MaxOffset, y \in 0..MaxOffset :
         hoveredSlice' = <<[index |-> index, x |-> x, y |-> y]>>
  /\ UNCHANGED chartData
  /\ UNCHANGED <<dashVars, dataVars, callVars>>
  /\ UNCHANGED <<statVars, looksVars, chatVars>>

\* handleMouseLeave from the onMouseLeave of the path of a slice
handleMouseLeave ==
  /\ PathsRendered
  /\ hoveredSlice # <<>>
  /\ hoveredSlice' = <<>>
  /\ UNCHANGED chartData
  /\ UNCHANGED <<dashVars, dataVars, callVars>>
  /\ UNCHANGED <<statVars, looksVars, chatVars>>

NextHover ==
  \/ ChangeChartData
  \/ handleMouseMove
  \/ handleMouseLeave

SpecHover == Init /\ [][NextHover]_vars

(***************************************************************************)
(* FashionStatistics: three loaded row lists, a brand and a season         *)
(* selection, and the top-10 tables of the rows that pass both.            *)
(***************************************************************************)
\* rows of colors.json in a load
MaxStatColors == 2
\* rows of items.json, and of materials.json, in a load
MaxStatOther == 1

sFallWinter2024Raw ==
  <<"f", "a", "l", "l", "_", "w", "i", "n", "t", "e", "r", "_", "2", "0", "2", "4">>

\* a row of a processed file: one of the three name fields is present
StatRow(designer, season, color, item, mat, frequency) ==
  [designer |-> designer, season |-> season, color_name |-> color,
   item_name |-> item, materials |-> mat, frequency |-> frequency]

\* rows of colors.json: a season in the spelling normalizeSeason returns,
\* the same season in another spelling, and a season it leaves alone
StatColorPool ==
  { StatRow(sDior, sFallWinter2024, sRed, NULL, NULL, 2),
    StatRow(sDior, sFallWinter2024Raw, sBlue, NULL, NULL, 3),
    StatRow(sPrada, sFallWinter2024Raw, sRed, NULL, NULL, 1),
    StatRow(sPrada, sFW25, sBlue, NULL, NULL, 3) }

StatItemPool ==
  { StatRow(sDior, sFallWinter2024, NULL, sCoat, NULL, 1),
    StatRow(sPrada, sFW25, NULL, sSkirt, NULL, 2) }

StatMaterialPool ==
  { StatRow(sDior, sFallWinter2024Raw, NULL, NULL, sWool, 1),
    StatRow(sPrada, sFW25, NULL, NULL, sSilk, 2) }

\* [...colors, ...items, ...materials]
AllStatRows == statColors \o statItems \o statMaterials

\* applyFilters of FashionStatistics, for a brand and a season selection
applyFiltersStatistics(rows, brand, season) ==
  SelectSeq(rows, LAMBDA d :
    /\ (brand # <<>> => d.designer = brand)
    /\ (season # <<>> => d.season = season))

\* brands: the designers of all rows, each once, the falsy ones dropped
brands ==
  SelectSeq(SetOrder([i \in 1..Len(AllStatRows) |-> AllStatRows[i].designer]),
            LAMBDA b : b # NULL /\ b # <<>>)

\* availableSeasons, for a brand selection: the normalized seasons of the
\* rows of the brand, each once
availableSeasons(brand) ==
  LET ofBrand == SelectSeq(AllStatRows,
                           LAMBDA d : brand # <<>> => d.designer = brand)
  IN SetOrder([i \in 1..Len(ofBrand) |->
                 normalizeSeasonStatistics(ofBrand[i].season)])

\* stable insertion of a row into a list that descends by frequency
InsertByFrequency(d, s) ==
  LET k == Cardinality({i \in 1..Len(s) : s[i].frequency >= d.frequency})
  IN SubSeq(s, 1, k) \o <<d>> \o SubSeq(s, k + 1, Len(s))

RECURSIVE SortByFrequency(_)
SortByFrequency(s) ==
  IF s = <<>> THEN <<>>
  ELSE InsertByFrequency(s[Len(s)], SortByFrequency(SubSeq(s, 1, Len(s) - 1)))

\* d.<field> ? capitalised : d.<field>
CapitalizeIfPresent(v) == IF v = NULL \/ v = <<>> THEN v ELSE displayForm(v)

\* getTopN: the n most frequent rows, ranked, their names capitalised
getTopN(rows, n) ==
  LET top == Slice0(SortByFrequency(rows), n)
  IN [idx \in 1..Len(top) |->
        [rank |-> idx,
         designer |-> top[idx].designer,
         season |-> top[idx].season,
         frequency |-> top[idx].frequency,
         color_name |-> CapitalizeIfPresent(top[idx].color_name),
         item_name |-> CapitalizeIfPresent(top[idx].item_name),
         materials |-> CapitalizeIfPresent(top[idx].materials)]]

topColors ==
  getTopN(applyFiltersStatistics(statColors, selectedBrand, selectedSeason), TopN)
topItems ==
  getTopN(applyFiltersStatistics(statItems, selectedBrand, selectedSeason), TopN)
topMaterials ==
  getTopN(applyFiltersStatistics(statMaterials, selectedBrand, selectedSeason),
          TopN)

\* the three files have not been loaded
StatisticsEmpty == AllStatRows = <<>>

\* Promise.all resolves: the three row lists are stored
LoadStatistics ==
  /\ StatisticsEmpty
  /\ statColors' \in UNION {[1..n -> StatColorPool] : n \in 1..MaxStatColors}
  /\ statItems' \in UNION {[1..n -> StatItemPool] : n \in 0..MaxStatOther}
  /\ statMaterials' \in
       UNION {[1..n -> StatMaterialPool] : n \in 0..MaxStatOther}
  /\ UNCHANGED <<selectedBrand, selectedSeason>>
  /\ UNCHANGED <<dashVars, dataVars, callVars>>
  /\ UNCHANGED <<hoverVars, looksVars, chatVars>>

\* onChange of the brand dropdown: "All Brands" or one of brands; the season
\* selection is reset
SelectBrand ==
  /\ \E b \in {<<>>} \cup {brands[i] : i \in 1..Len(brands)} :
       /\ b # selectedBrand \/ selectedSeason # <<>>
       /\ selectedBrand' = b
  /\ selectedSeason' = <<>>
  /\ UNCHANGED <<statColors, statItems, statMaterials>>
  /\ UNCHANGED <<dashVars, dataVars, callVars>>
  /\ UNCHANGED <<hoverVars, looksVars, chatVars>>

\* onChange of the season dropdown: "All Seasons" or one of availableSeasons
SelectSeason ==
  /\ \E s \in {<<>>} \cup {availableSeasons(selectedBrand)[i] :
                            i \in 1..Len(availableSeasons(selectedBrand))} :
       /\ s # selectedSeason
       /\ selectedSeason' = s
  /\ UNCHANGED <<statColors, statItems, statMaterials, selectedBrand>>
  /\ UNCHANGED <<dashVars, dataVars, callVars>>
  /\ UNCHANGED <<hoverVars, looksVars, chatVars>>

NextStatistics ==
  \/ LoadStatistics
  \/ SelectBrand
  \/ SelectSeason

SpecStatistics == Init /\ [][NextStatistics]_vars

(***************************************************************************)
(* The save_looks and getlooks lambdas over the MoonboardLooks table,      *)
(* whose primary key is (user_id, look_id) and whose index GSI1 has the    *)
(* key (GSI1PK, GSI1SK).  An invocation is one step; args is its event.    *)
(***************************************************************************)
\* items the table holds at most
MaxLooks == 2
\* the latest time of the clock
MaxClock == 1

sUserU == <<"u">>
sUserV == <<"v">>
sFolderA == <<"a">>
sFolderAB == <<"a", "#", "b">>
sUncategorized ==
  <<"u", "n", "c", "a", "t", "e", "g", "o", "r", "i", "z", "e", "d">>
sValue == <<"x">>

\* event.requestContext?.authorizer?.jwt?.claims?.sub: absent, or a user
UserIdClaims == {NULL, sUserU, sUserV}
\* the values crypto.randomUUID() returns
LookIds == {<<"1">>, <<"2">>}

requiredFields ==
  <<"image_id", "designer", "season", "original_image_name", "image_url">>

\* a request body that parses to an object with these fields
BodyObject(image_id, designer, season, original_image_name, image_url,
           folder_id) ==
  [kind |-> "object", image_id |-> image_id, designer |-> designer,
   season |-> season, original_image_name |-> original_image_name,
   image_url |-> image_url, folder_id |-> folder_id, items |-> NULL,
   colors |-> NULL, materials |-> NULL]

\* what JSON.parse(event.body || "{}") gives: an object, for an absent body
\* the empty object; the value null for the text "null"; a SyntaxError for
\* text that is not JSON
SaveBodies ==
  { BodyObject(sValue, sValue, sValue, sValue, sValue, f) :
      f \in {NULL, sFolderA, sFolderAB} }
    \cup { BodyObject(NULL, sValue, sValue, sValue, sValue, NULL),
           BodyObject(sValue, <<>>, sValue, sValue, sValue, NULL),
           BodyObject(sValue, sValue, NULL, sValue, sValue, sFolderA),
           BodyObject(sValue, sValue, sValue, NULL, sValue, NULL),
           BodyObject(sValue, sValue, sValue, sValue, <<>>, NULL),
           BodyObject(NULL, NULL, NULL, NULL, NULL, NULL),
           [BodyObject(NULL, NULL, NULL, NULL, NULL, NULL)
              EXCEPT !.kind = "null"],
           [BodyObject(NULL, NULL, NULL, NULL, NULL, NULL)
              EXCEPT !.kind = "invalid"] }

\* filterSet: arr.filter(Boolean) of an array, [] of anything else
filterSet(arr) ==
  IF arr = NULL THEN <<>>
  ELSE SelectSeq(arr, LAMBDA v : v # NULL /\ v # <<>>)

\* new Date().toISOString() at a time of the clock, and the time of such a
\* string
toISOString(t) == <<Chars[CodeOf["0"] + t]>>
getTime(s) == DigitVal(s[1])

\* response(statusCode, body)
response(fn, statusCode, body) ==
  [fn |-> fn, statusCode |-> statusCode, body |-> body]

\* the required fields the body lacks, in the order of the loop
MissingFields(body) ==
  SelectSeq(requiredFields, LAMBDA f : body[f] = NULL \/ body[f] = <<>>)

\* the item save_looks builds
LookItem(userId, body, lookId, now) ==
  [user_id |-> userId, look_id |-> lookId, image_id |-> body.image_id,
   designer |-> body.designer, season |-> body.season,
   original_image_name |-> body.original_image_name,
   image_url |-> body.image_url, saved_at |-> now, GSI1PK |-> userId,
   GSI1SK |-> OrElse(body.folder_id, sUncategorized)
                \o <<"#">> \o now \o <<"#">> \o lookId,
   items |-> filterSet(body.items), colors |-> filterSet(body.colors),
   materials |-> filterSet(body.materials),
   folder_id |-> IF body.folder_id = NULL \/ body.folder_id = <<>>
                 THEN NULL ELSE body.folder_id]

\* attribute_not_exists(user_id) AND attribute_not_exists(look_id), evaluated
\* on the item of the table with the key of the new item
ConditionHolds(tbl, item) ==
  ~\E old \in tbl : old.user_id = item.user_id /\ old.look_id = item.look_id

\* the handler of save_looks: the response and the table it leaves, for an
\* event, the UUID drawn, the time read and the availability of DynamoDB
SaveLooksResult(userId, body, lookId, now, dbOk, tbl) ==
  IF userId = NULL \/ userId = <<>>
  THEN [response |-> response("save_looks", 401, [error |-> "Unauthorized"]),
        table |-> tbl]
  ELSE IF body.kind = "invalid"
  THEN [response |-> response("save_looks", 500, [error |-> "SyntaxError"]),
        table |-> tbl]
  ELSE IF body.kind = "null"
  THEN [response |-> response("save_looks", 500, [error |-> "TypeError"]),
        table |-> tbl]
  ELSE IF MissingFields(body) # <<>>
  THEN [response |->
          response("save_looks", 400,
                   [error |-> "Missing required field",
                    field |-> MissingFields(body)[1]]),
        table |-> tbl]
  ELSE IF ~dbOk
  THEN [response |-> response("save_looks", 500, [error |-> "Internal error"]),
        table |-> tbl]
  ELSE IF ~ConditionHolds(tbl, LookItem(userId, body, lookId, now))
  THEN [response |->
          response("save_looks", 500, [error |-> "ConditionalCheckFailed"]),
        table |-> tbl]
  ELSE [response |->
          response("save_looks", 200, [success |-> TRUE, look_id |-> lookId]),
        table |-> tbl \cup {LookItem(userId, body, lookId, now)}]

\* save_looks is invoked
save_looks ==
  /\ Cardinality(table) < MaxLooks
  /\ \E userId \in UserIdClaims, body \in SaveBodies, lookId \in LookIds,
        dbOk \in BOOLEAN :
       LET result == SaveLooksResult(userId, body, lookId,
                                     toISOString(clock), dbOk, table)
       IN /\ args' = [fn |-> "save_looks", userId |-> userId, body |-> body]
          /\ lambdaResponse' = result.response
          /\ table' = result.table
  /\ UNCHANGED <<clock, returned>>
  /\ UNCHANGED <<dashVars, dataVars>>
  /\ UNCHANGED <<hoverVars, statVars, chatVars>>

\* time passes
Tick ==
  /\ clock < MaxClock
  /\ clock' = clock + 1
  /\ UNCHANGED <<table, lambdaResponse>>
  /\ UNCHANGED <<dashVars, dataVars, callVars>>
  /\ UNCHANGED <<hoverVars, statVars, chatVars>>

\* begins_with(s, prefix)
begins_with(s, prefix) ==
  Len(s) >= Len(prefix) /\ SubSeq(s, 1, Len(prefix)) = prefix

\* a Query with ScanIndexForward false: descending by GSI1SK
RECURSIVE DescendingBySortKey(_)
DescendingBySortKey(S) ==
  IF S = {} THEN <<>>
  ELSE LET m == CHOOSE x \in S : \A y \in S : ~StrLess(x.GSI1SK, y.GSI1SK)
       IN <<m>> \o DescendingBySortKey(S \ {m})

\* a Query of the base table: ascending by look_id
RECURSIVE AscendingByLookId(_)
AscendingByLookId(S) ==
  IF S = {} THEN <<>>
  ELSE LET m == CHOOSE x \in S : \A y \in S : ~StrLess(y.look_id, x.look_id)
       IN <<m>> \o AscendingByLookId(S \ {m})

\* stable insertion into a list that descends by the time of saved_at
InsertBySavedAt(e, s) ==
  LET k == Cardinality({i \in 1..Len(s) :
                          getTime(s[i].saved_at) >= getTime(e.saved_at)})
  IN SubSeq(s, 1, k) \o <<e>> \o SubSeq(s, k + 1, Len(s))

\* items.sort((a, b) => new Date(b.saved_at) - new Date(a.saved_at))
RECURSIVE SortBySavedAt(_)
SortBySavedAt(s) ==
  IF s = <<>> THEN <<>>
  ELSE InsertBySavedAt(s[Len(s)], SortBySavedAt(SubSeq(s, 1, Len(s) - 1)))

\* event.queryStringParameters?.folder_id of a getlooks request
FolderParams == {NULL, sFolderA, <<" ">> \o sFolderA, sFolderAB, sUncategorized}

\* the handler of getlooks
GetLooksResult(userId, folderParam, tbl) ==
  LET folderId == IF folderParam = NULL THEN NULL ELSE Trim(folderParam)
  IN IF userId = NULL \/ userId = <<>>
     THEN response("getlooks", 401, [error |-> "Unauthorized"])
     ELSE IF folderId # NULL /\ folderId # <<>>
     THEN response("getlooks", 200,
            [items |-> DescendingBySortKey(
               {it \in tbl : /\ it.GSI1PK = userId
                             /\ begins_with(it.GSI1SK, folderId \o <<"#">>)})])
     ELSE response("getlooks", 200,
            [items |-> SortBySavedAt(AscendingByLookId(
               {it \in tbl : it.user_id = userId}))])

\* getlooks is invoked
getlooks ==
  /\ \E userId \in UserIdClaims, folderParam \in FolderParams :
       /\ args' = [fn |-> "getlooks", userId |-> userId,
                   folder_id |-> folderParam]
       /\ lambdaResponse' = GetLooksResult(userId, folderParam, table)
  /\ UNCHANGED <<table, clock, returned>>
  /\ UNCHANGED <<dashVars, dataVars>>
  /\ UNCHANGED <<hoverVars, statVars, chatVars>>

NextLooks ==
  \/ save_looks
  \/ getlooks
  \/ Tick

SpecLooks == Init /\ [][NextLooks]_vars

(***************************************************************************)
(* Chatbot.  The input and the send button are disabled while loading, so  *)
(* handleSend runs only when no request is in flight.                      *)
(***************************************************************************)
\* questions the user sends at most
MaxQuestions == 2

sHi == <<"h", "i">>
sNoAnswer ==
  <<"N", "o", " ", "a", "n", "s", "w", "e", "r", " ", "r", "e", "c", "e", "i",
    "v", "e", "d", ".">>
sSorry ==
  <<"S", "o", "r", "r", "y", ",", " ", "t", "h", "e", "r", "e", " ", "w", "a",
    "s", " ", "a", "n", " ", "e", "r", "r", "o", "r", " ", "f", "e", "t", "c",
    "h", "i", "n", "g", " ", "a", " ", "r", "e", "s", "p", "o", "n", "s", "e",
    ".">>

\* what the user types into the input
ChatInputs == {<<>>, <<" ">>, sHi, <<" ">> \o sHi \o <<" ">>, sRed}

\* how a request settles: res.json() gives an object with this answer
\* (undefined and '' for a missing one), or fetch or res.json() throws
ChatOutcomes ==
  { [ok |-> TRUE, answer |-> sWool], [ok |-> TRUE, answer |-> NULL],
    [ok |-> TRUE, answer |-> <<>>], [ok |-> FALSE, answer |-> NULL] }

\* onChange of the input, which is disabled while loading
setInput ==
  /\ ~chatLoading
  /\ \E v \in ChatInputs \ {input} : input' = v
  /\ UNCHANGED <<messages, chatLoading, chatPending>>
  /\ UNCHANGED <<dashVars, dataVars, callVars>>
  /\ UNCHANGED <<hoverVars, statVars, looksVars>>

\* handleSend up to its await, from the click of the send button or from
\* Enter in the input, both disabled while loading
handleSend ==
  /\ ~chatLoading
  /\ Len(messages) + Len(chatPending) < 2 * MaxQuestions
  /\ LET trimmed == Trim(input)
     IN IF trimmed = <<>>
        THEN UNCHANGED chatVars
        ELSE /\ messages' = Append(messages, [role |-> "user", text |-> trimmed])
             /\ input' = <<>>
             /\ chatLoading' = TRUE
             /\ chatPending' = Append(chatPending, trimmed)
  /\ UNCHANGED <<dashVars, dataVars, callVars>>
  /\ UNCHANGED <<hoverVars, statVars, looksVars>>

\* the rest of handleSend without its catch block: a failure appends nothing
settleSend_NoCatch ==
  /\ \E i \in 1..Len(chatPending) : \E outcome \in ChatOutcomes :
       /\ messages' =
            IF outcome.ok
            THEN Append(messages,
                        [role |-> "assistant",
                         text |-> OrElse(outcome.answer, sNoAnswer)])
            ELSE messages
       /\ chatPending' = RemoveAt(chatPending, i)
  /\ chatLoading' = FALSE
  /\ UNCHANGED input
  /\ UNCHANGED <<dashVars, dataVars, callVars>>
  /\ UNCHANGED <<hoverVars, statVars, looksVars>>

\* the rest of handleSend, once its fetch has settled: the assistant
\* message of the try or of the catch block, then the finally block
settleSend ==
  /\ \E i \in 1..Len(chatPending) : \E outcome \in ChatOutcomes :
       /\ messages' =
            Append(messages,
                   [role |-> "assistant",
                    text |-> IF outcome.ok
                             THEN OrElse(outcome.answer, sNoAnswer)
                             ELSE sSorry])
       /\ chatPending' = RemoveAt(chatPending, i)
  /\ chatLoading' = FALSE
  /\ UNCHANGED input
  /\ UNCHANGED <<dashVars, dataVars, callVars>>
  /\ UNCHANGED <<hoverVars, statVars, looksVars>>

NextChat ==
  \/ setInput
  \/ handleSend
  \/ settleSend

SpecChat == Init /\ [][NextChat]_vars

(***************************************************************************)
(* Properties of the aggregation and of the chart.                         *)
(***************************************************************************)
\* the display name of record i for a grouping
DisplayNameAt(type, records, i) ==
  LET raw == records[i][FieldOf(type)]
  IN IF raw = <<>> THEN <<>> ELSE <<ToUpperChar(raw[1])>> \o SubSeq(raw, 2, Len(raw))

\* the indices of the records of a display-name group
GroupIndices(type, records, name) ==
  {i \in 1..Len(records) : DisplayNameAt(type, records, i) = name}

GroupNames(type, records) ==
  {DisplayNameAt(type, records, i) : i \in 1..Len(records)}

\* the position at which a group name is first encountered
FirstIndex(type, records, name) ==
  CHOOSE i \in GroupIndices(type, records, name) :
    \A j \in GroupIndices(type, records, name) : i <= j

RECURSIVE SumOf(_)
SumOf(bs) == IF bs = <<>> THEN 0 ELSE bs[1].value + SumOf(Tail(bs))

BucketsBeforeTruncation(type, records) == SortedEntries(Distribution(type, records))

C3_StableTies ==
  \A type \in Types :
    LET out == ChartData(type, rawData)
    IN \A i, j \in 1..Len(out) :
         i < j =>
           /\ out[i].value >= out[j].value
           /\ (out[i].value = out[j].value
                 => FirstIndex(type, rawData, out[i].name)
                      < FirstIndex(type, rawData, out[j].name))

\* C4: each color bucket's color is the color_hex of the first record whose
\* display color name is the bucket name, and the gray #808080 when that
\* record's color_hex is absent or empty; item and material buckets have no
\* color.
C4_ColorOfFirstRecord ==
  /\ LET out == ChartData("color", rawData)
     IN \A b \in 1..Len(out) :
          LET first == rawData[FirstIndex("color", rawData, out[b].name)]
          IN out[b].color =
               IF first.color_hex = NULL \/ first.color_hex = <<>>
               THEN <<"#", "8", "0", "8", "0", "8", "0">>
               ELSE first.color_hex
  /\ \A type \in {"item", "material"} :
       \A b \in 1..Len(ChartData(type, rawData)) :
         DOMAIN ChartData(type, rawData)[b] = {"name", "value"}

\* a color group whose records carry different hex values, and a color
\* group whose first record has no hex, have been formatted
C4_Witness ==
  /\ ~loading
  /\ \E i, j \in 1..Len(rawData) :
       /\ i < j
       /\ DisplayNameAt("color", rawData, i) = DisplayNameAt("color", rawData, j)
       /\ rawData[i].color_hex # rawData[j].color_hex
  /\ \E b \in 1..Len(ChartData("color", rawData)) :
       /\ ChartData("color", rawData)[b].color = sGray
       /\ rawData[FirstIndex("color", rawData,
                              ChartData("color", rawData)[b].name)].color_hex = NULL

\* the bucket lists the pages pass to PieChart
PieInputs(records) ==
  {ChartData(type, records) : type \in Types}
    \cup {OverviewDistribution(type, records) : type \in Types}

\* C5: for every non-empty bucket list with positive total, the slices are
\* laid out in input order, the first starts at angle 0, each starts where
\* the previous one ends, and the last ends at 360, in exact arithmetic.
C5_AnglesSumTo360 ==
  \A buckets \in PieInputs(rawData) :
    (buckets # <<>> /\ SumOf(Slice0(buckets, 10)) > 0) =>
      LET sl == Slices(buckets)
      IN /\ Len(sl) = Len(Slice0(buckets, 10))
         /\ \A i \in 1..Len(sl) : sl[i].bucket = buckets[i]
         /\ REq(sl[1].startAngle, RInt(0))
         /\ \A i \in 1..(Len(sl) - 1) : REq(sl[i + 1].startAngle, sl[i].endAngle)
         /\ \A i \in 1..Len(sl) : RLe(sl[i].startAngle, sl[i].endAngle)
         /\ REq(sl[Len(sl)].endAngle, RInt(360))

\* a chart of at least three slices, not all of one size, has been laid out
C5_Witness ==
  /\ ~loading
  /\ \E buckets \in PieInputs(rawData) :
       /\ Len(Slices(buckets)) >= 3
       /\ buckets[1].value > buckets[2].value

C7_ToggleRevealsRest ==
  LET buckets == ChartData("color", rawData)
  IN (ChartsShown /\ Len(displayData(buckets)) > 5) =>
       /\ ToggleShown(buckets)
       /\ Legend(buckets, showAllColors)
            = IF showAllColors THEN displayData(buckets)
              ELSE SubSeq(displayData(buckets), 1, 5)

(***************************************************************************)
(* Properties of the Data page filters.                                    *)
(***************************************************************************)
\* needle occurs in hay when letter case is ignored
ContainsIgnoringCase(hay, needle) ==
  \E off \in 0..(Len(hay) - Len(needle)) :
    \A k \in 1..Len(needle) :
      ToLowerChar(hay[off + k]) = ToLowerChar(needle[k])

\* needle occurs in hay
Contains(hay, needle) ==
  \E off \in 0..(Len(hay) - Len(needle)) :
    \A k \in 1..Len(needle) : hay[off + k] = needle[k]

\* the raw value of a field, the empty string when the record lacks it
RawField(item, field) == IF item[field] = NULL THEN <<>> ELSE item[field]

RawBrand(item) ==
  IF RawField(item, "designer") # <<>> THEN item.designer
  ELSE RawField(item, "brand")

\* a record satisfies every non-empty predicate of a filter state
Satisfies(item, f) ==
  /\ f.brand # <<>> => ContainsIgnoringCase(RawBrand(item), f.brand)
  /\ f.season # <<>> =>
       Contains(normalizeSeason(RawField(item, "season")), normalizeSeason(f.season))
  /\ f.color # <<>> => ContainsIgnoringCase(RawField(item, "color_name"), f.color)
  /\ f.item # <<>> => ContainsIgnoringCase(RawField(item, "item_name"), f.item)
  /\ f.material # <<>> =>
       ContainsIgnoringCase(RawField(item, "materials"), f.material)

\* C8: the filtered set is exactly the records, in their order, that
\* satisfy every non-empty predicate: case-insensitive containment in the raw
\* brand, color, item and material values, containment between the
\* normalized season forms, and no constraint from an empty predicate.
C8_FilteredExactly ==
  filteredData = SelectSeq(allData, LAMBDA item : Satisfies(item, filters))

\* two predicates, one of them the season, are set; they keep a record whose
\* letter case differs from the filter's and drop another record
C8_Witness ==
  /\ filters.season # <<>>
  /\ filters.color # <<>>
  /\ Len(filteredData) > 0
  /\ Len(filteredData) < Len(allData)
  /\ \E i \in 1..Len(filteredData) :
       /\ filteredData[i].color_name # NULL
       /\ ~Contains(filteredData[i].color_name, filters.color)

\* values a stricter filter state may set in a field
ProbeValues ==
  [brand |-> {<<>>, sDiorLow, <<"a">>},
   season |-> {<<>>, <<"f", "w", " ", "2", "5">>, <<"-">>},
   color |-> {<<>>, <<"R", "E", "D">>, <<"e">>},
   item |-> {<<>>, sCoatCap, <<"r", "a", "i", "n">>},
   material |-> {<<>>, sWool, <<"l">>}]

\* the values a stricter filter state may hold in a field
StricterValues(f, t) == IF f[t] # <<>> THEN {f[t]} ELSE ProbeValues[t]

\* the filter states that agree with f on every field f constrains
Stricter(f) ==
  {[brand |-> b, season |-> s, color |-> c, item |-> i, material |-> m] :
     b \in StricterValues(f, "brand"), s \in StricterValues(f, "season"),
     c \in StricterValues(f, "color"), i \in StricterValues(f, "item"),
     m \in StricterValues(f, "material")}

\* C9: filtering is monotonic: every record in the filtered set of a filter
\* state that agrees with the current one on the fields it constrains, and
\* constrains at least those, is in the current filtered set.
C9_Monotonic ==
  \A q \in Stricter(filters) :
    LET stricter == ApplyFilters(allData, q)
    IN \A i \in 1..Len(stricter) :
         \E j \in 1..Len(filteredData) : filteredData[j] = stricter[i]

\* a constrained filter state has a stricter one that keeps fewer records
C9_Witness ==
  /\ activeFiltersCount > 0
  /\ Len(filteredData) > 1
  /\ \E q \in Stricter(filters) :
       /\ q # filters
       /\ Len(ApplyFilters(allData, q)) > 0
       /\ Len(ApplyFilters(allData, q)) < Len(filteredData)

\* the values a dropdown offers in the current state
Offered(key) == Options(key, filteredData, allData)

\* a step sets a filter that was empty and leaves the other filters as
\* they are
AddsFilter ==
  \E t \in FilterTypes :
    /\ filters[t] = <<>>
    /\ filters'[t] # <<>>
    /\ \A u \in FilterTypes \ {t} : filters'[u] = filters[u]

C11_ClearRestores ==
  [][ClearFilters =>
       /\ \A t \in FilterTypes : filters'[t] = <<>>
       /\ filteredData' = allData'
       /\ \A key \in FilterTypes :
            getUniqueValues(key, filteredData', allData') =
              SortStrings(OptionSet(allData', key))
       /\ ApplyFilters(allData', NoFilters) = filteredData'
       /\ NoFilters = filters']_vars

\* two filters are set, records are filtered out and an option list is
\* shorter than the unfiltered one: the state clearFilters is clicked in
C11_Witness ==
  /\ FiltersShown
  /\ activeFiltersCount >= 2
  /\ Len(filteredData) < Len(allData)
  /\ \E key \in FilterTypes :
       Options(key, filteredData, allData) # Options(key, allData, allData)

\* the normalizer a call record names
NormalizerOf(fn, s) ==
  IF fn = "normalizeSeason" THEN normalizeSeason(s)
  ELSE normalizeSeasonStatistics(s)

\* s with the separator character at position i written as sep
WithSeparator(s, i, sep) == SubSeq(s, 1, i - 1) \o sep \o SubSeq(s, i + 1, Len(s))

\* the spellings of s that differ from it in case only, or in how one of its
\* separators is written
Respellings(s) ==
  {toLowerCase(s), toUpperCase(s)}
    \cup { WithSeparator(s, i, sep) :
             i \in {j \in 1..Len(s) : s[j] \in {"-", "_", " "}},
             sep \in Separators }

\* C12 (as claimed): each season normalizer is idempotent, and gives a
\* season and every respelling of it (other case, hyphen, underscore or a
\* run of spaces as separator) the same key.
C12_NormalizerInsensitive ==
  returned.fn \in {"normalizeSeason", "normalizeSeasonStatistics"} =>
    /\ NormalizerOf(returned.fn, returned.value) = returned.value
    /\ \A t \in Respellings(args) :
         NormalizerOf(returned.fn, t) = returned.value

\* the same for the normalizer of the Data page alone
NormalizeSeasonInsensitive ==
  returned.fn = "normalizeSeason" =>
    /\ normalizeSeason(returned.value) = returned.value
    /\ \A t \in Respellings(args) : normalizeSeason(t) = returned.value

\* the normalizer of FashionStatistics is idempotent
NormalizeSeasonStatisticsIdempotent ==
  returned.fn = "normalizeSeasonStatistics" =>
    normalizeSeasonStatistics(returned.value) = returned.value

\* the NormalizedKey of a raw string: lower case, hyphens and underscores
\* as spaces, runs of spaces collapsed, trimmed
NormalizedKey(s) == Trim(CollapseSpaces(ReplaceSeparators(toLowerCase(s))))

\* the entries of the folder mapping
FolderSeasons == {sFallWinter2025, sSpringSummer2025}

\* the mapped folder for the normalized keys of brand and season, NULL when
\* the mapping has no entry for them
MappedFolder(brand, season) ==
  IF \E b \in FolderBrands, s \in FolderSeasons :
       NormalizedKey(b) = NormalizedKey(brand)
         /\ NormalizedKey(s) = NormalizedKey(season)
  THEN LET e == CHOOSE e \in FolderBrands \X FolderSeasons :
                  NormalizedKey(e[1]) = NormalizedKey(brand)
                    /\ NormalizedKey(e[2]) = NormalizedKey(season)
       IN folderMap(e[1], e[2])
  ELSE NULL

\* the brand is one of the mapping's brands
RecognizedBrand(brand) ==
  \E b \in FolderBrands : NormalizedKey(b) = NormalizedKey(brand)

\* C13 (as claimed): when the normalized keys of brand and season have an
\* entry in the folder mapping, getFolder returns the mapped folder.
C13_MappedFolderReturned ==
  (returned.fn = "getFolder" /\ MappedFolder(args[1], args[2]) # NULL) =>
    returned.value = MappedFolder(args[1], args[2])

\* the same with the keys as getFolder itself builds them (lower case, runs
\* of spaces as one hyphen)
MappedFolderReturnedForOwnKeys ==
  (returned.fn = "getFolder"
     /\ folderMap(toLowerCase(args[1]), slug(args[2])) # NULL) =>
    returned.value = folderMap(toLowerCase(args[1]), slug(args[2]))

\* C14 (as claimed): when the brand is recognized and the mapping has no
\* entry for brand and season, getFolder returns the synthesized folder
\* slug(brand)-ready-to-wear-slug(season)-paris.
C14_SynthesizedFolder ==
  (returned.fn = "getFolder" /\ RecognizedBrand(args[1])
     /\ MappedFolder(args[1], args[2]) = NULL) =>
    returned.value = slug(args[1]) \o sReadyToWear \o slug(args[2]) \o sParis

\* a returned value that is a non-empty string
NonEmptyString(v) ==
  v \notin {NULL, <<>>, TypeError, FunctionObject, ObjectPrototype,
            FunctionFunction, FunctionPrototype, NumberOne}

\* C15 (as claimed): for every brand string and season string the folder
\* resolution returns a non-empty string and does not throw, and for an
\* empty or unrecognized brand it returns the default folder.
C15_TotalWithDefault ==
  returned.fn \in {"getFolder", "getS3FolderPathForItem"} =>
    /\ NonEmptyString(returned.value)
    /\ ~RecognizedBrand(args[1]) => returned.value = sDefaultFolder

\* the same for getS3FolderPathForItem alone
S3FolderPathTotal ==
  returned.fn = "getS3FolderPathForItem" =>
    /\ NonEmptyString(returned.value)
    /\ ~RecognizedBrand(args[1]) => returned.value = sDefaultFolder

\* C16 (as claimed): every record that passes the dataset filter, its brand
\* in designer or in brand, is rendered as a card whose folder and image URL
\* are resolved without throwing.
C16_CardsResolve ==
  ChartsShown =>
    \A i \in 1..Len(data) :
      /\ \A k \in 1..Len(data[i][2]) : InDataset(data[i][2][k], dataset)
      /\ FashionCard(data[i]).folder # TypeError
      /\ FashionCard(data[i]).imageUrl # TypeError

(***************************************************************************)
(* Properties of dataset detection and of the fetch state machines.        *)
(***************************************************************************)
\* the dataset a record of allData is put into: the one with its id
DatasetOf(item) ==
  CHOOSE i \in 1..Len(datasets) : datasets[i].id = datasetId(item)

\* the designer and the season fields have equal NormalizedKeys
SameNormalizedKeys(a, b) ==
  /\ NormalizedKey(OrElse(a.designer, sUnknownDesigner)) =
       NormalizedKey(OrElse(b.designer, sUnknownDesigner))
  /\ NormalizedKey(OrElse(a.season, sUnknownSeason)) =
       NormalizedKey(OrElse(b.season, sUnknownSeason))

\* C17 (as claimed): detection puts two records of the response into the
\* same dataset exactly when their designers have equal NormalizedKeys and
\* their seasons have equal NormalizedKeys, and the id of a dataset is
\* slug(designer)-slug(season).
C17_SameDatasetIffSameKeys ==
  ~dataLoading =>
    /\ \A i \in 1..Len(allData) :
         /\ \E k \in 1..Len(datasets) : datasets[k].id = datasetId(allData[i])
         /\ datasetId(allData[i]) =
              slug(Trim(OrElse(allData[i].designer, sUnknownDesigner)))
                \o <<"-">> \o
              slug(Trim(OrElse(allData[i].season, sUnknownSeason)))
    /\ \A i, j \in 1..Len(allData) :
         (DatasetOf(allData[i]) = DatasetOf(allData[j]))
           <=> SameNormalizedKeys(allData[i], allData[j])

\* the part of it that holds: every record has a dataset, a dataset's id is
\* the slug of its designer and season, and ids are not repeated
DatasetIdsAreSlugs ==
  ~dataLoading =>
    /\ \A i \in 1..Len(allData) :
         \E k \in 1..Len(datasets) : datasets[k].id = datasetId(allData[i])
    /\ \A k \in 1..Len(datasets) :
         datasets[k].id = slug(datasets[k].designer) \o <<"-">>
                            \o slug(datasets[k].season)
    /\ \A k, l \in 1..Len(datasets) :
         datasets[k].id = datasets[l].id => k = l

\* the view FashionDashboard renders
DashboardView ==
  IF loading THEN "Loading" ELSE IF error # NoError THEN "Error" ELSE "Success"

\* C18 (as claimed): a fetch that completes with an OK response leaves the
\* dashboard in the Success view, and a fetch that fails leaves it in the
\* Error view, whatever dataset changes and fetches came before.
C18_FetchEndsInSuccessOrError ==
  [][/\ FetchDataOkShort => DashboardView' = "Success"
     /\ FetchDataFail => DashboardView' = "Error"]_vars

\* the part of it that holds: every completed fetch ends the Loading view,
\* and a failed one ends in the Error view
FetchEndsLoading ==
  [][/\ (FetchDataOkShort \/ FetchDataFail) => DashboardView' # "Loading"
     /\ FetchDataFail => DashboardView' = "Error"]_vars

\* C19 (as claimed): once every response has arrived, rawData and the cards
\* hold the records of the dataset selected last, and only those.
C19_NoStaleOverwrite ==
  (pending = <<>> /\ error = NoError) =>
    /\ \A i \in 1..Len(rawData) : InDataset(rawData[i], selected)
    /\ data = GroupByImage(rawData)

\* C20 (as claimed): a failed fetch of the Data page leads to a state in
\* which loading is false and an error message is rendered.
C20_FailureShown ==
  [][FetchAndDetectFail => (~dataLoading' /\ "error" \in DataView')]_vars

\* the part of it that holds: the failed fetch ends loading, on the Data
\* page and in the dashboard, and the dashboard shows the message
FailureEndsLoading ==
  [][/\ FetchAndDetectFail => ~dataLoading'
     /\ FetchDataFail => (~loading' /\ DashboardView' = "Error")]_vars

(***************************************************************************)
(* Properties of records with absent fields, of the image cards and of the *)
(* filtered record set.                                                    *)
(***************************************************************************)
\* C21 (as claimed): over records of which some lack color_name, item_name,
\* materials or color_hex, every distribution is computed without throwing
\* and counts every record, the one with the absent field included.
C21_AggregationTotal ==
  returned # NoCall =>
    /\ ~returned.value.threw
    /\ SumOf(returned.value.buckets) = Len(args)

\* the part of it that holds: a record without color_hex is counted in all
\* three distributions, and its color bucket gets the default color
AbsentHexIsDefaulted ==
  (returned # NoCall
     /\ ~ThrowsTypeError(args, FieldOf(returned.value.type))) =>
    /\ ~returned.value.threw
    /\ SumOf(returned.value.buckets) = Len(args)
    /\ (returned.fn = "FashionDashboard" /\ returned.value.type = "color") =>
         \A b \in 1..Len(returned.value.buckets) :
           returned.value.buckets[b].color # NULL

\* the elements of a sequence
Range(s) == {s[i] : i \in 1..Len(s)}

\* no element of a sequence occurs twice
NoDuplicates(s) == \A i, j \in 1..Len(s) : s[i] = s[j] => i = j

\* the cards partition the displayed records by original_image_name: one
\* card per image name, every record in the card of its image name
CardsPartitionRecords ==
  /\ \A k, l \in 1..Len(data) : data[k][1] = data[l][1] => k = l
  /\ \A k \in 1..Len(data) :
       data[k][2] =
         SelectSeq(rawData, LAMBDA r : r.original_image_name = data[k][1])
  /\ \A i \in 1..Len(rawData) :
       \E k \in 1..Len(data) : data[k][1] = rawData[i].original_image_name

\* C22 (as claimed): the displayed records are grouped into one card per
\* original_image_name, every record in exactly one card, and the clothing,
\* color and material tags of a card are the set union of the display names
\* of its records, with no tag twice.
C22_CardTagsAreUnions ==
  ChartsShown =>
    /\ CardsPartitionRecords
    /\ \A k \in 1..Len(data) :
         LET tags == CardTags(data[k])
             items == data[k][2]
             colorNames == [i \in 1..Len(tags.uniqueColors) |->
                              tags.uniqueColors[i].name]
         IN /\ Range(tags.uniqueClothing) =
                 {displayForm(items[i].item_name) : i \in 1..Len(items)}
            /\ Range(colorNames) =
                 {displayForm(items[i].color_name) : i \in 1..Len(items)}
            /\ Range(tags.uniqueMaterials) =
                 {displayForm(items[i].materials) : i \in 1..Len(items)}
            /\ NoDuplicates(tags.uniqueClothing)
            /\ NoDuplicates(colorNames)
            /\ NoDuplicates(tags.uniqueMaterials)

\* the part of it that holds: the grouping, the tag sets, and color tags
\* without repetition
CardTagSetsAreUnions ==
  ChartsShown =>
    /\ CardsPartitionRecords
    /\ \A k \in 1..Len(data) :
         LET tags == CardTags(data[k])
             items == data[k][2]
             colorNames == [i \in 1..Len(tags.uniqueColors) |->
                              tags.uniqueColors[i].name]
         IN /\ Range(tags.uniqueClothing) =
                 {displayForm(items[i].item_name) : i \in 1..Len(items)}
            /\ Range(colorNames) =
                 {displayForm(items[i].color_name) : i \in 1..Len(items)}
            /\ Range(tags.uniqueMaterials) =
                 {displayForm(items[i].materials) : i \in 1..Len(items)}
            /\ NoDuplicates(colorNames)

\* the records of allData that belong to the dataset shown
DatasetRecords == SelectSeq(allData, LAMBDA item : InDataset(item, selected))

\* C23 (as claimed): whenever the dashboard shows its charts on the Data
\* page, the color, item and material distributions are the aggregation of
\* the currently filtered records when a filter is active, and of the
\* unfiltered records of the dataset when none is.
C23_ChartsFollowFilters ==
  (DashboardMounted /\ ChartsShown) =>
    \A type \in Types :
      DashboardAggregate(type, rawData) =
        DashboardAggregate(type, IF FilteredDataProp.defined
                                 THEN FilteredDataProp.records
                                 ELSE DatasetRecords)

\* the part of it that holds: the charts are always the aggregation of the
\* unfiltered records of the dataset, whatever the filters are
ChartsOverDatasetRecords ==
  (DashboardMounted /\ ChartsShown) =>
    \A type \in Types :
      DashboardAggregate(type, rawData) =
        DashboardAggregate(type, DatasetRecords)

(***************************************************************************)
(* Properties of the hover tooltip, of overlapping fetches and of the      *)
(* dataset and season selections.                                          *)
(***************************************************************************)
\* C24 (as claimed): whenever the tooltip is rendered, hoveredSlice.index is
\* an index of the current displayData, also after the data prop got
\* shorter while a slice was hovered, so the tooltip reads a bucket.
C24_HoverIndexValid ==
  TooltipRendered =>
    /\ hoveredSlice[1].index < Len(displayData(chartData))
    /\ TooltipName # TypeError

\* the part of it that holds: the index is valid right after a mouse move
\* and as long as the data prop does not change
HoverIndexValidAfterMove ==
  [][/\ handleMouseMove =>
          hoveredSlice'[1].index < Len(displayData(chartData'))
     /\ (handleMouseLeave) => ~TooltipRendered']_vars

\* C25 (as claimed): while a fetchData call of the dashboard is in flight,
\* loading is true; the completion of an earlier fetch does not show the
\* non-loading view while a later fetch is outstanding.
C25_LoadingWhileFetching ==
  pending # <<>> => loading

\* the part of it that holds: every start of a fetch sets loading, so with
\* a single fetch in flight the dashboard shows the spinner
LoadingWithSingleFetch ==
  /\ [][ChangeDataset => loading']_vars
  /\ [][(Len(pending) = 1 /\ loading) => (pending' # <<>> => loading')]_vars

\* the records detection maps to the dataset id D
MappedTo(D) == SelectSeq(allData, LAMBDA item : datasetId(item) = D)

\* C26 (as claimed): once the dashboard of the selected dataset D has
\* loaded, the records it keeps are the records detection maps to D: every
\* record mapped to D is kept, and no record mapped to another id is.
C26_DetectionAgreesWithFilter ==
  (DashboardMounted /\ ChartsShown) =>
    /\ \A i \in 1..Len(allData) :
         datasetId(allData[i]) = currentDataset
           => \E k \in 1..Len(rawData) : rawData[k] = allData[i]
    /\ \A k \in 1..Len(rawData) : datasetId(rawData[k]) = currentDataset

\* the part of it that holds: a kept record that has a designer field is
\* mapped to D
KeptWithDesignerAreMapped ==
  (DashboardMounted /\ ChartsShown) =>
    \A k \in 1..Len(rawData) :
      rawData[k].designer # NULL => datasetId(rawData[k]) = currentDataset

\* C27 (as claimed): every season the dropdown offers for the selected
\* brand is matched, by the season predicate of applyFilters, by a row of
\* that brand, and a selected season leaves the top-10 tables non-empty.
C27_OfferedSeasonMatches ==
  /\ \A i \in 1..Len(availableSeasons(selectedBrand)) :
       applyFiltersStatistics(AllStatRows, selectedBrand,
                              availableSeasons(selectedBrand)[i]) # <<>>
  /\ selectedSeason # <<>> =>
       (topColors # <<>> \/ topItems # <<>> \/ topMaterials # <<>>)

\* the part of it that holds: every offered season is the normalized season
\* of a row of the brand, and a season offered in the spelling of its rows
\* is matched by them
OfferedSeasonIsNormalized ==
  \A i \in 1..Len(availableSeasons(selectedBrand)) :
    LET s == availableSeasons(selectedBrand)[i]
        ofBrand == applyFiltersStatistics(AllStatRows, selectedBrand, <<>>)
    IN /\ \E k \in 1..Len(ofBrand) :
            normalizeSeasonStatistics(ofBrand[k].season) = s
       /\ (\E k \in 1..Len(ofBrand) : ofBrand[k].season = s)
            => applyFiltersStatistics(AllStatRows, selectedBrand, s) # <<>>

(***************************************************************************)
(* Properties of the lambdas and of the Chatbot.                           *)
(***************************************************************************)
\* the event carries an authenticated user id
Authenticated(event) == event.userId # NULL /\ event.userId # <<>>

\* the body of the event carries all five required fields, non-empty
AllRequiredFields(event) ==
  event.body.kind = "object" /\ MissingFields(event.body) = <<>>

\* what the claim says of one invocation of save_looks, from table tbl to
\* table tbl2 with response r
SaveAsClaimed(event, tbl, r, tbl2) ==
  /\ tbl2 # tbl => (Authenticated(event) /\ AllRequiredFields(event))
  /\ ~Authenticated(event) => (r.statusCode = 401 /\ tbl2 = tbl)
  /\ (Authenticated(event) /\ ~AllRequiredFields(event))
       => (r.statusCode = 400 /\ tbl2 = tbl)
  /\ r.statusCode = 200 =>
       /\ \E it \in tbl2 \ tbl :
            /\ it.look_id = r.body.look_id
            /\ it.user_id = event.userId
            /\ tbl2 = tbl \cup {it}
       /\ ~\E old \in tbl : /\ old.user_id = event.userId
                            /\ old.look_id = r.body.look_id
  /\ tbl \subseteq tbl2

\* C28 (as claimed): save_looks writes an item only for an authenticated
\* request with all five required fields non-empty; any other request gets
\* 401 (no user id) or 400 (missing field) and leaves the table unchanged;
\* a successful save returns 200 with the look_id of the new item and never
\* overwrites an item with the same (user_id, look_id).
C28_SaveValidates ==
  [][save_looks => SaveAsClaimed(args', table, lambdaResponse', table')]_vars

\* the part of it that holds: the same for every request whose body parses
\* to an object, and no request that is refused changes the table
SaveValidatesObjectBodies ==
  [][save_looks =>
       /\ args'.body.kind = "object"
            => SaveAsClaimed(args', table, lambdaResponse', table')
       /\ lambdaResponse'.statusCode # 200 => table' = table
       /\ table \subseteq table']_vars

\* the last invocation was a getlooks request of a user for a folder
FolderRequestAnswered ==
  /\ lambdaResponse.fn = "getlooks"
  /\ lambdaResponse.statusCode = 200
  /\ args.folder_id # NULL
  /\ Trim(args.folder_id) # <<>>

\* the looks the user of the request saved with the folder id of the request
SavedInFolder ==
  {it \in table : /\ it.user_id = args.userId
                  /\ it.folder_id = Trim(args.folder_id)}

\* a list of looks goes from the newest to the oldest
NewestFirst(looks) ==
  \A i, j \in 1..Len(looks) :
    i < j => getTime(looks[i].saved_at) >= getTime(looks[j].saved_at)

\* C29 (as claimed): a getlooks request of user U with folder_id F returns
\* exactly the looks U saved with folder_id F, none of another user, of
\* another folder (one whose id extends F with '#' included) or saved
\* without a folder id, the newest first.
C29_FolderLooksExact ==
  FolderRequestAnswered =>
    /\ Range(lambdaResponse.body.items) = SavedInFolder
    /\ NoDuplicates(lambdaResponse.body.items)
    /\ NewestFirst(lambdaResponse.body.items)

\* the part of it that holds: every look returned belongs to the user of
\* the request, every look saved in the folder is returned once, and the
\* looks of that folder are in order from the newest to the oldest
FolderLooksOfUser ==
  FolderRequestAnswered =>
    /\ \A it \in Range(lambdaResponse.body.items) : it.user_id = args.userId
    /\ SavedInFolder \subseteq Range(lambdaResponse.body.items)
    /\ NoDuplicates(lambdaResponse.body.items)
    /\ NewestFirst(SelectSeq(lambdaResponse.body.items,
                             LAMBDA it : it \in SavedInFolder))

\* the messages alternate user, assistant, from a user message on
Alternates(ms) ==
  \A i \in 1..Len(ms) :
    ms[i].role = IF i % 2 = 1 THEN "user" ELSE "assistant"

\* C30: a send with empty or whitespace-only input changes nothing; any
\* other send appends exactly one user message; a request that settles, with
\* an answer, without one or by failing, appends exactly one assistant
\* message and ends loading; so whenever no request is in flight the
\* messages alternate user, assistant, their number is even and loading is
\* false.
C30_ChatAlternates ==
  /\ [](chatPending = <<>> =>
          /\ Alternates(messages)
          /\ Len(messages) % 2 = 0
          /\ ~chatLoading)
  /\ [][/\ (handleSend /\ Trim(input) = <<>>) => UNCHANGED chatVars
        /\ (handleSend /\ Trim(input) # <<>>) =>
             /\ messages' =
                  Append(messages, [role |-> "user", text |-> Trim(input)])
             /\ chatLoading'
        /\ settleSend =>
             /\ Len(messages') = Len(messages) + 1
             /\ SubSeq(messages', 1, Len(messages)) = messages
             /\ messages'[Len(messages')].role = "assistant"
             /\ messages'[Len(messages')].text \in {sWool, sNoAnswer, sSorry}
             /\ ~chatLoading']_vars

\* C30 witness: two questions have been sent and answered, one by the
\* message for a missing answer and one by the message for a failure, after
\* a send of whitespace only, and nothing is in flight.
C30_Witness ==
  /\ chatPending = <<>>
  /\ ~chatLoading
  /\ Len(messages) = 4
  /\ \E i, j \in 1..Len(messages) :
       messages[i].text = sNoAnswer /\ messages[j].text = sSorry
  /\ input = <<" ">>

====
